---- MODULE Spec2Model ----
(***************************************************************************)
(* Verification model of the nexus MCP server:                             *)
(*   - TokenManager (mcp-server/token-manager.ts): OAuth credential with   *)
(*     on-demand, single-flight refresh;                                   *)
(*   - the tool handlers of mcp-server/server.ts (add-entity,              *)
(*     remove-entity, update-entity-value, update-entity-position) over    *)
(*     the module-level session state and autoLayoutOffset;                *)
(*   - the pure functions resolveEntityType and recommendEntityForStyle.   *)
(* Strings whose characters matter are sequences of one-character strings. *)
(***************************************************************************)
EXTENDS Integers, Sequences, FiniteSets, TLC

(***************************************************************************)
(* Bounds of the model.                                                    *)
(***************************************************************************)
NumCallers == 2
MaxCalls == 3
MaxRefreshes == 2
MaxFineTicks == 1
MaxCoarseTicks == 1
MaxEntities == 3
MaxOffset == 3
MaxDocuments == 1
MaxSessions == 2

(***************************************************************************)
(* token-manager.ts                                                        *)
(***************************************************************************)
TOKEN_EXPIRY_BUFFER_MS == 60000

Undefined == "undefined"

Callers == 1..NumCallers

\* The credentials a session may be constructed with (TokenConfig).
InitialExpiresAt == {60000, 60001, 120001}
InitialRefreshToken == {Undefined, "", "r0"}

\* What the token endpoint may answer: fetch() rejecting, a non-2xx status,
\* a body that is no JSON, an OAuth error payload, or a token payload whose
\* fields may each be absent.
\* The endpoint never issues the same access token twice: the p-th request
\* is answered with the p-th token, or with no access_token at all.
IssuedAccessToken(p) == "a" \o ToString(p)
ResponseAccessToken(p) == {Undefined, IssuedAccessToken(p)}
ResponseRefreshToken == {Undefined, "r1"}
ResponseExpiresIn == {0, 60, 61}
FailureReasons ==
    { "fetch failed",
      "Token refresh request failed: 400 Bad Request",
      "Unexpected token < in JSON",
      "OAuth error: invalid_grant" }
TokenResponses(p) ==
    [ ok : {TRUE}, access_token : ResponseAccessToken(p),
      refresh_token : ResponseRefreshToken, expires_in : ResponseExpiresIn,
      reason : {""} ]
FailureResponses ==
    [ ok : {FALSE}, access_token : {Undefined}, refresh_token : {Undefined},
      expires_in : {0}, reason : FailureReasons ]
Responses(p) == TokenResponses(p) \cup FailureResponses

VARIABLES
    now,            \* Date.now()
    accessToken,    \* TokenManager.accessToken
    expiresAt,      \* TokenManager.expiresAt
    refreshToken,   \* TokenManager.refreshToken
    clientId,       \* TokenManager.clientId
    refreshPromise, \* TokenManager.refreshPromise: 0 (undefined) or a promise
    promises,       \* the promises refreshAccessToken() has returned
    pc,             \* where each getToken() invocation stands
    awaiting,       \* the promise each suspended invocation awaits
    reactions,      \* suspended invocations, in the order they began to await
    microtasks,     \* continuations made ready by a settled promise
    draining,       \* TRUE while the continuations of a promise are running
    result,         \* what each invocation's promise resolved to
    threw,          \* TRUE when an invocation's promise was rejected
    issued,         \* requests issued by each caller's current invocation
    entry,          \* what each invocation found when it was called
    calls           \* number of getToken() invocations so far

VARIABLES
    input,          \* resolveEntityType: the argument
    resolved,       \* resolveEntityType: the value returned
    resolvePc,      \* "call" before the function ran, "done" after
    description,    \* recommendEntityForStyle: the argument
    recommendation, \* recommendEntityForStyle: the value returned
    stylePc         \* "call" before the function ran, "done" after

VARIABLES
    audiotoolClient,  \* server.ts: audiotoolClient (NoClient when null)
    document,         \* server.ts: document, 0 (null) or an index of docs
    docs,             \* the SyncedDocument objects created so far
    autoLayoutOffset, \* server.ts: autoLayoutOffset
    entities,         \* the entities of the remote project, by identifier
    nextEntityId,     \* the identifier the next created entity gets
    last,             \* the outcome of the tool invocation that ended last
    autoPlaced        \* the coordinates given to the add-entity calls that
                      \* omitted both, in call order

VARIABLES
    tokenManager,     \* server.ts: tokenManager ("null" when null)
    sessionPc,        \* where the initialize-session invocation stands
    sessions,         \* number of initialize-session invocations so far
    waits,            \* the waitForConnection promises created so far, each
                      \* with its subscription and its timer
    trace             \* what the latest invocation has completed, in order

srvVars ==
    << audiotoolClient, document, docs, autoLayoutOffset, entities,
       nextEntityId, last, autoPlaced >>

resolverVars == << input, resolved, resolvePc >>

styleVars == << description, recommendation, stylePc >>

fnVars == << resolverVars, styleVars >>

tmVars ==
    << now, accessToken, expiresAt, refreshToken, clientId, refreshPromise,
       promises, pc, awaiting, reactions, microtasks, draining, result, threw,
       issued, entry, calls >>

sessVars == << tokenManager, sessionPc, sessions, waits, trace >>

vars == << tmVars, fnVars, srvVars, sessVars >>

\* JavaScript truthiness of an optional string.
Truthy(s) == s # Undefined /\ s # ""

NoResult == [ tag |-> "none", value |-> "" ]
StringResult(s) == [ tag |-> "string", value |-> s ]
ErrorResult(m) == [ tag |-> "Error", value |-> m ]

NoEntry == [ expired |-> FALSE, hadRefreshToken |-> FALSE, promise |-> 0,
             pending |-> FALSE, settling |-> FALSE, token |-> Undefined ]

IsExpiredTwiceTheBuffer == now >= expiresAt - 2 * TOKEN_EXPIRY_BUFFER_MS

\* const isExpired = Date.now() >= this.expiresAt - TOKEN_EXPIRY_BUFFER_MS
IsExpired == now >= expiresAt - TOKEN_EXPIRY_BUFFER_MS

IsValidAtTheBoundary == now <= expiresAt - TOKEN_EXPIRY_BUFFER_MS

\* isValid()
IsValid == now < expiresAt - TOKEN_EXPIRY_BUFFER_MS

HasRefreshTokenUnchecked == TRUE

\* if (!this.refreshToken) return new Error(...)
HasRefreshToken == Truthy(refreshToken)

RefreshInFlightUnchecked == FALSE

\* if (this.refreshPromise) { await this.refreshPromise; ... }
RefreshInFlight == refreshPromise # 0

Pending(p) == promises[p].state = "pending"
Outstanding == { p \in DOMAIN promises : Pending(p) }

InitTM ==
    /\ now = 0
    /\ accessToken = "a0"
    /\ expiresAt \in InitialExpiresAt
    /\ refreshToken \in InitialRefreshToken
    /\ clientId = "client"
    /\ refreshPromise = 0
    /\ promises = << >>
    /\ pc = [ c \in Callers |-> "idle" ]
    /\ awaiting = [ c \in Callers |-> 0 ]
    /\ reactions = << >>
    /\ microtasks = << >>
    /\ draining = FALSE
    /\ result = [ c \in Callers |-> NoResult ]
    /\ threw = [ c \in Callers |-> FALSE ]
    /\ issued = [ c \in Callers |-> 0 ]
    /\ entry = [ c \in Callers |-> NoEntry ]
    /\ calls = 0

\* Time passes: by a millisecond, or by a minute.
Tick ==
    /\ \E d \in {1, TOKEN_EXPIRY_BUFFER_MS} :
          /\ (now + d) % TOKEN_EXPIRY_BUFFER_MS <= MaxFineTicks
          /\ (now + d) \div TOKEN_EXPIRY_BUFFER_MS <= MaxCoarseTicks
          /\ now' = now + d
    /\ UNCHANGED << accessToken, expiresAt, refreshToken, clientId,
                    refreshPromise, promises, pc, awaiting, reactions,
                    microtasks, draining, result, threw, issued, entry,
                    calls >>

\* A continuation runs to completion before the next one starts, and the
\* continuations of one settled promise are adjacent in the microtask queue:
\* a new invocation starts only while none of them has run.
CanCall(c) ==
    /\ pc[c] \in {"idle", "returned"}
    /\ calls < MaxCalls
    /\ ~draining

Entry ==
    [ expired |-> IsExpired, hadRefreshToken |-> Truthy(refreshToken),
      promise |-> refreshPromise,
      pending |-> refreshPromise # 0 /\ Pending(refreshPromise),
      settling |-> microtasks # << >>,
      token |-> accessToken ]

\* getToken(), from the call to its first suspension or its return.
GetToken(c) ==
    /\ CanCall(c)
    /\ calls' = calls + 1
    /\ entry' = [ entry EXCEPT ![c] = Entry ]
    /\ threw' = [ threw EXCEPT ![c] = FALSE ]
    /\ IF ~IsExpired
       THEN \* return this.accessToken
            /\ pc' = [ pc EXCEPT ![c] = "returned" ]
            /\ result' = [ result EXCEPT ![c] = StringResult(accessToken) ]
            /\ issued' = [ issued EXCEPT ![c] = 0 ]
            /\ awaiting' = [ awaiting EXCEPT ![c] = 0 ]
            /\ UNCHANGED << refreshPromise, promises, reactions, microtasks >>
       ELSE IF ~HasRefreshToken
       THEN \* return new Error(...)
            /\ pc' = [ pc EXCEPT ![c] = "returned" ]
            /\ result' = [ result EXCEPT ![c] =
                  ErrorResult("Token expired and no refresh token available") ]
            /\ issued' = [ issued EXCEPT ![c] = 0 ]
            /\ awaiting' = [ awaiting EXCEPT ![c] = 0 ]
            /\ UNCHANGED << refreshPromise, promises, reactions, microtasks >>
       ELSE IF RefreshInFlight
       THEN \* await this.refreshPromise (the shared one)
            /\ pc' = [ pc EXCEPT ![c] = "line52" ]
            /\ result' = [ result EXCEPT ![c] = NoResult ]
            /\ issued' = [ issued EXCEPT ![c] = 0 ]
            /\ awaiting' = [ awaiting EXCEPT ![c] = refreshPromise ]
            /\ IF Pending(refreshPromise)
               THEN /\ reactions' = Append(reactions, c)
                    /\ UNCHANGED microtasks
               ELSE /\ microtasks' = Append(microtasks, c)
                    /\ UNCHANGED reactions
            /\ UNCHANGED << refreshPromise, promises >>
       ELSE \* this.refreshPromise = this.refreshAccessToken(); await it
            /\ Len(promises) < MaxRefreshes
            /\ promises' = Append(promises,
                  [ state |-> "pending", reason |-> "", token |-> Undefined ])
            /\ refreshPromise' = Len(promises) + 1
            /\ pc' = [ pc EXCEPT ![c] = "line58" ]
            /\ result' = [ result EXCEPT ![c] = NoResult ]
            /\ issued' = [ issued EXCEPT ![c] = 1 ]
            /\ awaiting' = [ awaiting EXCEPT ![c] = Len(promises) + 1 ]
            /\ reactions' = Append(reactions, c)
            /\ UNCHANGED microtasks
    /\ UNCHANGED << now, accessToken, expiresAt, refreshToken, clientId,
                    draining >>

Call == \E c \in Callers : GetToken(c)

SelectAwaiting(q, p) == SelectSeq(q, LAMBDA c : awaiting[c] = p)
SelectOthers(q, p) == SelectSeq(q, LAMBDA c : awaiting[c] # p)

RefreshFailedDropsRefreshToken ==
    /\ refreshToken' = Undefined
    /\ UNCHANGED << accessToken, expiresAt >>

\* refreshAccessToken() throws before the assignments of lines 103-115.
RefreshFailed == UNCHANGED << accessToken, refreshToken, expiresAt >>

RotatedRefreshTokenAlwaysAssigned(data) == data.refresh_token

\* if (data.refresh_token) { this.refreshToken = data.refresh_token; }
RotatedRefreshToken(data) ==
    IF Truthy(data.refresh_token) THEN data.refresh_token ELSE refreshToken

\* refreshAccessToken(), from the answer of the token endpoint to the
\* settlement of the promise it returned.  Nothing of the TokenManager is
\* read or written between the two awaits, and the three assignments are
\* made without suspending.
RefreshAccessToken(p, data) ==
    /\ Pending(p)
    /\ microtasks = << >>
    /\ IF data.ok
       THEN /\ accessToken' =
                  IF Truthy(data.access_token) THEN data.access_token
                  ELSE accessToken
            /\ refreshToken' = RotatedRefreshToken(data)
            /\ expiresAt' =
                  IF data.expires_in # 0 THEN now + data.expires_in * 1000
                  ELSE expiresAt
            /\ promises' = [ promises EXCEPT ![p] =
                  [ state |-> "fulfilled", reason |-> "",
                    token |-> accessToken' ] ]
       ELSE /\ promises' = [ promises EXCEPT ![p] =
                  [ state |-> "rejected", reason |-> data.reason,
                    token |-> Undefined ] ]
            /\ RefreshFailed
    /\ microtasks' = SelectAwaiting(reactions, p)
    /\ reactions' = SelectOthers(reactions, p)
    /\ UNCHANGED << now, clientId, refreshPromise, pc, awaiting, draining,
                    result, threw, issued, entry, calls >>

Respond == \E p \in DOMAIN promises : \E data \in Responses(p) :
              RefreshAccessToken(p, data)

CatchRethrows(c, error) ==
    /\ threw' = [ threw EXCEPT ![c] = TRUE ]
    /\ UNCHANGED result

\* catch (error) { return new Error(`Token refresh failed: ${message}`) }
Catch(c, error) ==
    /\ result' = [ result EXCEPT ![c] =
          ErrorResult("Token refresh failed: " \o error) ]
    /\ UNCHANGED threw

AwaitNeverThrows(c) == FALSE

\* await this.refreshPromise throws when the promise was rejected.
AwaitThrows(c) == promises[awaiting[c]].state = "rejected"

\* getToken(), from the settlement of the awaited promise to its return.
Resume(c) ==
    /\ microtasks # << >>
    /\ c = Head(microtasks)
    /\ microtasks' = Tail(microtasks)
    /\ draining' = (Tail(microtasks) # << >>)
    /\ pc' = [ pc EXCEPT ![c] = "returned" ]
    /\ IF ~AwaitThrows(c)
       THEN /\ refreshPromise' =
                  IF pc[c] = "line58" THEN 0 ELSE refreshPromise
            /\ result' = [ result EXCEPT ![c] = StringResult(accessToken) ]
            /\ UNCHANGED threw
       ELSE \* the await throws: line 59 is skipped, the catch block runs
            /\ Catch(c, promises[awaiting[c]].reason)
            /\ UNCHANGED refreshPromise
    /\ UNCHANGED << now, accessToken, expiresAt, refreshToken, clientId,
                    promises, awaiting, reactions, issued, entry, calls >>

Continue == \E c \in Callers : Resume(c)

NextTM == Tick \/ Call \/ Respond \/ Continue

(***************************************************************************)
(* server.ts: resolveEntityType                                            *)
(***************************************************************************)
VALID_ENTITY_TYPES ==
    << << "h", "e", "i", "s", "e", "n", "b", "e", "r", "g" >>,
       << "b", "a", "s", "s", "l", "i", "n", "e" >>,
       << "m", "a", "c", "h", "i", "n", "i", "s", "t", "e" >>,
       << "t", "o", "n", "e", "m", "a", "t", "r", "i", "x" >>,
       << "s", "t", "o", "m", "p", "b", "o", "x", "D", "e", "l", "a", "y" >> >>

\* The own properties of the object literal ENTITY_TYPE_ALIASES.
ENTITY_TYPE_ALIASES ==
    << << << "m", "a", "c", "h", "i", "n", "e", "d", "r", "u", "m" >>,
          << "m", "a", "c", "h", "i", "n", "i", "s", "t", "e" >> >>,
       << << "d", "r", "u", "m", " ", "m", "a", "c", "h", "i", "n", "e" >>,
          << "m", "a", "c", "h", "i", "n", "i", "s", "t", "e" >> >>,
       << << "d", "r", "u", "m", "m", "a", "c", "h", "i", "n", "e" >>,
          << "m", "a", "c", "h", "i", "n", "i", "s", "t", "e" >> >> >>

\* ENTITY_TYPE_ALIASES is a plain object: a property that is not its own is
\* looked up on Object.prototype.  These are the properties found there
\* under an all-lower-case name, with the (truthy, non-string) value each has.
ObjectPrototype ==
    << << << "c", "o", "n", "s", "t", "r", "u", "c", "t", "o", "r" >>,
          << "[Function: Object]" >> >>,
       << << "_", "_", "p", "r", "o", "t", "o", "_", "_" >>,
          << "[Object: null prototype]" >> >> >>

Null == << "null" >>

UpperCaseLetters == << "A", "B", "C", "D", "E", "F", "G", "H", "I", "J", "K", "L", "M", "N", "O", "P", "Q", "R", "S", "T", "U", "V", "W", "X", "Y", "Z" >>
LowerCaseLetters == << "a", "b", "c", "d", "e", "f", "g", "h", "i", "j", "k", "l", "m", "n", "o", "p", "q", "r", "s", "t", "u", "v", "w", "x", "y", "z" >>

LowerCaseOf(ch) ==
    IF \E k \in 1..Len(UpperCaseLetters) : UpperCaseLetters[k] = ch
    THEN LowerCaseLetters[CHOOSE k \in 1..Len(UpperCaseLetters) :
                             UpperCaseLetters[k] = ch]
    ELSE ch

\* String.prototype.toLowerCase
RECURSIVE ToLowerCase(_)
ToLowerCase(str) ==
    IF str = << >> THEN << >>
    ELSE << LowerCaseOf(Head(str)) >> \o ToLowerCase(Tail(str))

WhiteSpace == { " ", "\t", "\n" }

RECURSIVE TrimStart(_)
TrimStart(str) ==
    IF str # << >> /\ Head(str) \in WhiteSpace THEN TrimStart(Tail(str))
    ELSE str

RECURSIVE TrimEnd(_)
TrimEnd(str) ==
    IF str # << >> /\ str[Len(str)] \in WhiteSpace
    THEN TrimEnd(SubSeq(str, 1, Len(str) - 1))
    ELSE str

\* String.prototype.trim
Trim(str) == TrimEnd(TrimStart(str))

Min3(x, y, z) ==
    IF x <= y /\ x <= z THEN x ELSE IF y <= z THEN y ELSE z

\* Row i of the table dp, computed from row i - 1 (prev), left to right.
RECURSIVE LevenshteinRow(_, _, _, _, _)
LevenshteinRow(a, b, i, prev, row) ==
    IF Len(row) = Len(b) + 1 THEN row
    ELSE LET j == Len(row)
             cell == IF a[i] = b[j]
                     THEN prev[j]
                     ELSE 1 + Min3(prev[j + 1], row[j], prev[j])
         IN  LevenshteinRow(a, b, i, prev, Append(row, cell))

RECURSIVE LevenshteinRows(_, _, _, _)
LevenshteinRows(a, b, i, prev) ==
    IF i > Len(a) THEN prev
    ELSE LevenshteinRows(a, b, i + 1, LevenshteinRow(a, b, i, prev, << i >>))

\* levenshtein(a, b): dp[m][n]
Levenshtein(a, b) ==
    LevenshteinRows(a, b, 1, [ j \in 1..(Len(b) + 1) |-> j - 1 ])[Len(b) + 1]

Infinity == 1000000

\* The loop of lines 513-521: the first catalog entry of minimum distance.
RECURSIVE FuzzyLoop(_, _, _, _)
FuzzyLoop(lower, k, best, bestDist) ==
    IF k > Len(VALID_ENTITY_TYPES) THEN << best, bestDist >>
    ELSE LET d == Levenshtein(lower, ToLowerCase(VALID_ENTITY_TYPES[k]))
         IN  IF d < bestDist
             THEN FuzzyLoop(lower, k + 1, VALID_ENTITY_TYPES[k], d)
             ELSE FuzzyLoop(lower, k + 1, best, bestDist)

MAX_FUZZY_DISTANCE == 3

FuzzyMatch(lower) ==
    LET found == FuzzyLoop(lower, 1, Null, Infinity)
    IN  IF found[2] <= MAX_FUZZY_DISTANCE THEN found[1] ELSE Null

\* VALID_ENTITY_TYPES.includes(trimmed)
Includes(list, x) == \E k \in 1..Len(list) : list[k] = x

\* obj[key]: the own property, else the inherited one, else undefined (Null)
PropertyLookup(own, key) ==
    IF \E k \in 1..Len(own) : own[k][1] = key
    THEN own[CHOOSE k \in 1..Len(own) : own[k][1] = key][2]
    ELSE IF \E k \in 1..Len(ObjectPrototype) : ObjectPrototype[k][1] = key
    THEN ObjectPrototype[CHOOSE k \in 1..Len(ObjectPrototype) :
                            ObjectPrototype[k][1] = key][2]
    ELSE Null

\* VALID_ENTITY_TYPES.find((t) => t.toLowerCase() === lower)
FindCaseInsensitive(lower) ==
    LET hits == { k \in 1..Len(VALID_ENTITY_TYPES) :
                    ToLowerCase(VALID_ENTITY_TYPES[k]) = lower }
    IN  IF hits = {} THEN Null
        ELSE VALID_ENTITY_TYPES[CHOOSE k \in hits : \A h \in hits : k <= h]

ResolveEntityType(raw) ==
    LET trimmed == Trim(raw)
        lower == ToLowerCase(trimmed)
    IN  IF Includes(VALID_ENTITY_TYPES, trimmed) THEN trimmed
        ELSE IF PropertyLookup(ENTITY_TYPE_ALIASES, lower) # Null
        THEN PropertyLookup(ENTITY_TYPE_ALIASES, lower)
        ELSE IF FindCaseInsensitive(lower) # Null
        THEN FindCaseInsensitive(lower)
        ELSE FuzzyMatch(lower)

\* The arguments resolveEntityType is applied to: catalog entries, alias
\* keys, property names and unrelated words, as they are, in upper case,
\* capitalised, padded with white space, and with one character dropped.
UpperCaseOf(ch) ==
    IF \E k \in 1..Len(LowerCaseLetters) : LowerCaseLetters[k] = ch
    THEN UpperCaseLetters[CHOOSE k \in 1..Len(LowerCaseLetters) :
                             LowerCaseLetters[k] = ch]
    ELSE ch

RECURSIVE ToUpperCase(_)
ToUpperCase(str) ==
    IF str = << >> THEN << >>
    ELSE << UpperCaseOf(Head(str)) >> \o ToUpperCase(Tail(str))

Capitalised(str) ==
    IF str = << >> THEN str
    ELSE ToUpperCase(SubSeq(str, 1, 1)) \o SubSeq(str, 2, Len(str))

Dropped(str) ==
    { SubSeq(str, 1, i - 1) \o SubSeq(str, i + 1, Len(str)) : i \in 1..Len(str) }

XYZ123 == << "x", "y", "z", "1", "2", "3" >>
HISENBERG == << "h", "i", "s", "e", "n", "b", "e", "r", "g" >>

BaseWords ==
    { VALID_ENTITY_TYPES[k] : k \in 1..Len(VALID_ENTITY_TYPES) }
    \cup { ENTITY_TYPE_ALIASES[k][1] : k \in 1..Len(ENTITY_TYPE_ALIASES) }
    \cup { ObjectPrototype[k][1] : k \in 1..Len(ObjectPrototype) }
    \cup { XYZ123,
           HISENBERG,
           SubSeq(VALID_ENTITY_TYPES[1], 1, 7),
           SubSeq(VALID_ENTITY_TYPES[1], 1, 6),
           << "d", "r", "u", "m" >>,
           << >> }

ResolverInputs ==
    UNION { { w, ToUpperCase(w), ToLowerCase(w), Capitalised(w),
              << " " >> \o w \o << " ", "\n" >> } \cup Dropped(w) :
            w \in BaseWords }

InitResolve ==
    /\ input \in ResolverInputs
    /\ resolved = Null
    /\ resolvePc = "call"

ResolveIdle ==
    /\ input = << >>
    /\ resolved = Null
    /\ resolvePc = "idle"

\* resolveEntityType(input)
Resolve ==
    /\ resolvePc = "call"
    /\ resolved' = ResolveEntityType(input)
    /\ resolvePc' = "done"
    /\ UNCHANGED input

NextInput ==
    /\ resolvePc = "done"
    /\ input' \in ResolverInputs
    /\ resolved' = Null
    /\ resolvePc' = "call"

(***************************************************************************)
(* server.ts: recommendEntityForStyle                                      *)
(***************************************************************************)
\* The entries of STYLE_MAP in insertion order, which is the order of
\* Object.entries: << keyword, entityType, reason >>.
STYLE_MAP ==
    <<
       << << "b", "a", "s", "s" >>,
          << "b", "a", "s", "s", "l", "i", "n", "e" >>,
          "Bass-heavy sound is best served by the bassline monophonic synth." >>,
       << << "a", "c", "i", "d" >>,
          << "b", "a", "s", "s", "l", "i", "n", "e" >>,
          "Acid sounds (303-style) map to the bassline synth." >>,
       << << "s", "u", "b" >>,
          << "b", "a", "s", "s", "l", "i", "n", "e" >>,
          "Sub-bass frequencies are the domain of the bassline synth." >>,
       << << "d", "a", "f", "t", " ", "p", "u", "n", "k" >>,
          << "b", "a", "s", "s", "l", "i", "n", "e" >>,
          "Daft Punk frequently uses monophonic synth bass lines." >>,
       << << "t", "e", "c", "h", "n", "o" >>,
          << "m", "a", "c", "h", "i", "n", "i", "s", "t", "e" >>,
          "Techno is driven by drum machine patterns." >>,
       << << "d", "r", "u", "m" >>,
          << "m", "a", "c", "h", "i", "n", "i", "s", "t", "e" >>,
          "Drum / beat requests map to the machiniste drum machine." >>,
       << << "b", "e", "a", "t" >>,
          << "m", "a", "c", "h", "i", "n", "i", "s", "t", "e" >>,
          "Beat / rhythm requests map to the machiniste drum machine." >>,
       << << "p", "e", "r", "c", "u", "s", "s", "i", "o", "n" >>,
          << "m", "a", "c", "h", "i", "n", "i", "s", "t", "e" >>,
          "Percussion requests map to the machiniste drum machine." >>,
       << << "h", "i", "p", " ", "h", "o", "p" >>,
          << "m", "a", "c", "h", "i", "n", "i", "s", "t", "e" >>,
          "Hip hop relies on drum machine beats." >>,
       << << "t", "r", "a", "p" >>,
          << "m", "a", "c", "h", "i", "n", "i", "s", "t", "e" >>,
          "Trap is driven by drum machine patterns." >>,
       << << "p", "a", "d" >>,
          << "h", "e", "i", "s", "e", "n", "b", "e", "r", "g" >>,
          "Pads and atmospheric textures map to the heisenberg polyphonic synth." >>,
       << << "c", "h", "o", "r", "d" >>,
          << "h", "e", "i", "s", "e", "n", "b", "e", "r", "g" >>,
          "Chords need a polyphonic synth like heisenberg." >>,
       << << "a", "m", "b", "i", "e", "n", "t" >>,
          << "h", "e", "i", "s", "e", "n", "b", "e", "r", "g" >>,
          "Ambient / atmospheric sounds map to heisenberg." >>,
       << << "l", "e", "a", "d" >>,
          << "h", "e", "i", "s", "e", "n", "b", "e", "r", "g" >>,
          "Lead synth melodies map to heisenberg." >>,
       << << "k", "e", "y", "s" >>,
          << "h", "e", "i", "s", "e", "n", "b", "e", "r", "g" >>,
          "Keyboard / keys parts map to heisenberg." >>,
       << << "p", "i", "a", "n", "o" >>,
          << "h", "e", "i", "s", "e", "n", "b", "e", "r", "g" >>,
          "Piano-like polyphonic parts map to heisenberg." >>,
       << << "a", "r", "p", "e", "g", "g", "i", "o" >>,
          << "t", "o", "n", "e", "m", "a", "t", "r", "i", "x" >>,
          "Arpeggios and sequenced patterns map to the tonematrix." >>,
       << << "l", "o", "o", "p" >>,
          << "t", "o", "n", "e", "m", "a", "t", "r", "i", "x" >>,
          "Melodic loops and generative patterns map to the tonematrix." >>,
       << << "s", "e", "q", "u", "e", "n", "c", "e" >>,
          << "t", "o", "n", "e", "m", "a", "t", "r", "i", "x" >>,
          "Step-sequenced patterns map to the tonematrix." >>,
       << << "d", "e", "l", "a", "y" >>,
          << "s", "t", "o", "m", "p", "b", "o", "x", "D", "e", "l", "a", "y" >>,
          "Delay / echo effects map to the stompboxDelay." >>,
       << << "e", "c", "h", "o" >>,
          << "s", "t", "o", "m", "p", "b", "o", "x", "D", "e", "l", "a", "y" >>,
          "Echo effects map to the stompboxDelay." >>,
       << << "s", "p", "a", "c", "e" >>,
          << "s", "t", "o", "m", "p", "b", "o", "x", "D", "e", "l", "a", "y" >>,
          "Spacey / spatial effects map to the stompboxDelay." >>,
       << << "r", "e", "v", "e", "r", "b" >>,
          << "s", "t", "o", "m", "p", "b", "o", "x", "D", "e", "l", "a", "y" >>,
          "Reverb-like spatial effects can be approximated with stompboxDelay." >> >>

DEFAULT_RECOMMENDATION ==
    [ entityType |-> << "h", "e", "i", "s", "e", "n", "b", "e", "r", "g" >>,
      reason |-> "Heisenberg is the most versatile synth and a good default for unrecognised styles." ]

\* String.prototype.includes
StringIncludes(str, sub) ==
    \E i \in 0..(Len(str) - Len(sub)) : SubSeq(str, i + 1, i + Len(sub)) = sub

\* for (const [keyword, rec] of Object.entries(STYLE_MAP)) ...
RECURSIVE StyleLoop(_, _)
StyleLoop(lower, k) ==
    IF k > Len(STYLE_MAP) THEN DEFAULT_RECOMMENDATION
    ELSE IF StringIncludes(lower, STYLE_MAP[k][1])
    THEN [ entityType |-> STYLE_MAP[k][2], reason |-> STYLE_MAP[k][3] ]
    ELSE StyleLoop(lower, k + 1)

RecommendEntityForStyleCaseSensitive(text) == StyleLoop(text, 1)

RecommendEntityForStyle(text) == StyleLoop(ToLowerCase(text), 1)

NoRecommendation == [ entityType |-> Null, reason |-> "" ]

\* The descriptions recommendEntityForStyle is applied to: one word, two
\* words, and the two descriptions of the specification.
StyleWords ==
    { << "w", "a", "r", "m" >>,
      << "a", "m", "b", "i", "e", "n", "t" >>,
      << "p", "a", "d" >>,
      << "a", "c", "i", "d" >>,
      << "b", "a", "s", "s", "l", "i", "n", "e" >>,
      << "T", "e", "c", "h", "n", "o" >>,
      << "B", "E", "A", "T" >>,
      << "d", "r", "u", "m" >>,
      << "d", "e", "l", "a", "y" >>,
      << "S", "P", "A", "C", "E" >>,
      << "d", "a", "f", "t", " ", "p", "u", "n", "k" >>,
      << "H", "i", "p", " ", "H", "o", "p" >>,
      << "s", "u", "b", "t", "l", "e" >>,
      << "j", "a", "z", "z" >>,
      << "t", "r", "a", "p" >>,
      << "l", "o", "o", "p" >> }

WARM_AMBIENT_PAD == << "w", "a", "r", "m", " ", "a", "m", "b", "i", "e", "n", "t", " ", "p", "a", "d" >>
ACID_BASSLINE == << "a", "c", "i", "d", " ", "b", "a", "s", "s", "l", "i", "n", "e" >>

StyleDescriptions ==
    StyleWords
    \cup { v \o << " " >> \o w : v, w \in StyleWords }
    \cup { WARM_AMBIENT_PAD, ACID_BASSLINE, << >> }

InitStyle ==
    /\ description \in StyleDescriptions
    /\ recommendation = NoRecommendation
    /\ stylePc = "call"

StyleIdle ==
    /\ description = << >>
    /\ recommendation = NoRecommendation
    /\ stylePc = "idle"

\* recommendEntityForStyle(description)
Recommend ==
    /\ stylePc = "call"
    /\ recommendation' = RecommendEntityForStyle(description)
    /\ stylePc' = "done"
    /\ UNCHANGED description

NextDescription ==
    /\ stylePc = "done"
    /\ description' \in StyleDescriptions
    /\ recommendation' = NoRecommendation
    /\ stylePc' = "call"

(***************************************************************************)
(* server.ts: session state, getDocument and the tool handlers.            *)
(* The document is the remote service of @audiotool/nexus; its operations  *)
(* (create, remove, removeWithDependencies, getEntity, update) are         *)
(* modelled as the specification describes them.                           *)
(***************************************************************************)
\* An optional argument: absent, or present with a value.
Omitted == << >>
Given(value) == << value >>

\* The identifiers a tool may be handed: those of entities that exist or
\* existed, and one that never names an entity.
EntityIds == 1..(MaxEntities + 1)

POSITION_FIELDS == { "positionX", "positionY" }

\* The type of an entity that other collaborators attach to a device; it is
\* not in VALID_ENTITY_TYPES and has no desktop placement.
CABLE == << "d", "e", "s", "k", "t", "o", "p", "A", "u", "d", "i", "o", "C", "a", "b", "l", "e" >>

\* The ToolResult of an invocation, with what the invocation did; content
\* holds the values that the text of the result is built from.
NoInvocation ==
    [ tool |-> "none", isError |-> FALSE, escaped |-> FALSE, message |-> "",
      content |-> << >>, transactions |-> 0, removed |-> 0 ]

Invocation(tool) == [ NoInvocation EXCEPT !.tool = tool ]

\* A client object: what authorizes its requests, and the initialize-session
\* invocation that created it (0 when getClient() created it).
Client(authorization, session) ==
    [ authorization |-> authorization, session |-> session ]

\* let audiotoolClient = null
NoClient == Client("null", 0)

\* A SyncedDocument object: the client whose createSyncedDocument made it,
\* whether start() completed, whether stop() was called, and the value of
\* its connectivity observable.
SyncedDocument(client, started) ==
    [ client |-> client, started |-> started, stopped |-> FALSE,
      connected |-> FALSE ]

InitServer ==
    /\ audiotoolClient = NoClient
    /\ document = 0
    /\ docs = << >>
    /\ autoLayoutOffset = 0
    /\ entities = << >>
    /\ nextEntityId = 1
    /\ last = NoInvocation
    /\ autoPlaced = << >>

GetDocumentWithoutConnectionCheck ==
    IF document = 0 THEN "No document open" ELSE ""

\* getDocument(): the message of the Error it throws, or "" when it returns
\* the document.
GetDocument ==
    IF document = 0 THEN "No document open"
    ELSE IF ~docs[document].connected THEN "Document is not connected"
    ELSE ""

\* The catch block of a tool handler: the error becomes a ToolResult.
ToolError(inv, msg) ==
    [ inv EXCEPT !.isError = TRUE, !.message = msg, !.content = << >> ]

ToolSuccess(inv) == [ inv EXCEPT !.isError = FALSE, !.message = "ok" ]

HasErrorIgnored(modifyResult) == FALSE

\* if ("error" in modifyResult) throw new Error(modifyResult.error)
HasError(modifyResult) == "error" \in DOMAIN modifyResult

\* ids together with the entities that point to one of them, directly or
\* through other entities.
RECURSIVE DependentsOf(_, _)
DependentsOf(ents, ids) ==
    LET more == { e \in DOMAIN ents : ents[e].pointsTo \in ids } \ ids
    IN  IF more = {} THEN ids ELSE DependentsOf(ents, ids \cup more)

Restrict(ents, ids) == [ e \in ids |-> ents[e] ]

\* t.remove(entityID): removes the named entity only; throws when the
\* identifier names no entity.
Remove(ents, id) ==
    IF id \notin DOMAIN ents
    THEN [ error |-> "Entity not found", ents |-> ents ]
    ELSE [ ok |-> TRUE, ents |-> Restrict(ents, DOMAIN ents \ {id}) ]

\* t.removeWithDependencies(entityID): removes the named entity and
\* everything that depends on it; throws when the identifier names no entity.
RemoveWithDependencies(ents, id) ==
    IF id \notin DOMAIN ents
    THEN [ error |-> "Entity not found", ents |-> ents ]
    ELSE [ ok |-> TRUE,
           ents |-> Restrict(ents, DOMAIN ents \ DependentsOf(ents, {id})) ]

RemoveTransactionIgnoringFlag(ents, id, removeDependencies) == Remove(ents, id)

\* The transaction of remove-entity (lines 902-915).
RemoveTransaction(ents, id, removeDependencies) ==
    IF removeDependencies THEN RemoveWithDependencies(ents, id)
    ELSE Remove(ents, id)

UpdateValueTransactionWithoutFieldCheck(ents, id, fieldName, value) ==
    IF id \notin DOMAIN ents
    THEN [ error |-> "Entity not found", ents |-> ents ]
    ELSE [ ok |-> TRUE,
           ents |-> [ ents EXCEPT ![id].fields =
                        [ f \in DOMAIN @ \cup {fieldName} |->
                            IF f = fieldName THEN value ELSE @[f] ] ] ]

\* The transaction of update-entity-value (lines 977-1000).
UpdateValueTransaction(ents, id, fieldName, value) ==
    IF id \notin DOMAIN ents
    THEN [ error |-> "Entity not found", ents |-> ents ]
    ELSE IF fieldName \notin DOMAIN ents[id].fields
    THEN [ error |-> "Field not found", ents |-> ents ]
    ELSE [ ok |-> TRUE,
           ents |-> [ ents EXCEPT ![id].fields[fieldName] = value ] ]

\* t.update(field, value) may throw; the outcomes in which the first or the
\* second call of a callback does.
UPDATE_THROWS == { "first update throws", "second update throws" }

\* The transaction of update-entity-position (lines 1048-1073).  The
\* callback catches what t.update throws and returns { error }: the updates
\* made before the throw are part of the transaction.
UpdatePositionTransaction(ents, id, x, y, outcome) ==
    IF id \notin DOMAIN ents
    THEN [ error |-> "Entity not found", ents |-> ents ]
    ELSE IF ~(POSITION_FIELDS \subseteq DOMAIN ents[id].fields)
    THEN [ error |-> "No positionX/positionY fields", ents |-> ents ]
    ELSE IF outcome = "first update throws"
    THEN [ error |-> "update failed", ents |-> ents ]
    ELSE IF outcome = "second update throws"
    THEN [ error |-> "update failed",
           ents |-> [ ents EXCEPT ![id].fields["positionX"] = x ] ]
    ELSE [ ok |-> TRUE,
           ents |-> [ ents EXCEPT ![id].fields["positionX"] = x,
                                  ![id].fields["positionY"] = y ] ]

EntityPropertiesCallerWins(properties, posX, posY) ==
    [ f \in DOMAIN properties \cup POSITION_FIELDS |->
        IF f \in DOMAIN properties THEN properties[f]
        ELSE IF f = "positionX" THEN posX
        ELSE posY ]

\* { ...(properties || {}), positionX: posX, positionY: posY }
EntityProperties(properties, posX, posY) ==
    [ f \in DOMAIN properties \cup POSITION_FIELDS |->
        IF f = "positionX" THEN posX
        ELSE IF f = "positionY" THEN posY
        ELSE properties[f] ]

\* The transaction of add-entity (lines 817-841); t.create throws for a
\* type the document does not know.
CreateTransaction(ents, id, type, properties, posX, posY) ==
    IF ~Includes(VALID_ENTITY_TYPES, type)
    THEN [ error |-> "unknown entity type", ents |-> ents ]
    ELSE [ entity |-> id,
           ents |-> [ e \in DOMAIN ents \cup {id} |->
                        IF e = id
                        THEN [ entityType |-> type,
                               fields |-> EntityProperties(properties, posX, posY),
                               pointsTo |-> 0 ]
                        ELSE ents[e] ] ]

\* What the tools are called with.
AddEntityTypes ==
    { ENTITY_TYPE_ALIASES[1][1], XYZ123 }
AddEntityProperties == { [ gain |-> 1, positionX |-> 7 ] }
OptionalCoordinates == { Omitted, Given(0) }
NewPositions == { << 40, 40 >> }
FieldNames == { "gain", "volume" }
FieldValues == { 5 }
IS_ACTIVE == "isActive"


\* The JSON values that `value` may be, by their type.
ValueKinds == { "number", "string", "boolean" }
ValuesOfKind(kind) ==
    IF kind = "number" THEN FieldValues
    ELSE IF kind = "boolean" THEN { TRUE }
    ELSE { "on" }
ModifyOutcomes == { "applied", "rejected" }

\* resolveEntityType(args.entityType), computed once for each type that
\* add-entity is called with.
ResolvedTypes == { << t, ResolveEntityType(t) >> : t \in AddEntityTypes }
Resolved(entityType) == (CHOOSE r \in ResolvedTypes : r[1] = entityType)[2]

ModifyRetried(inv, outcome, modifyResult) ==
    IF outcome = "rejected"
    THEN /\ last' = ToolError([ inv EXCEPT !.transactions = 2 ], "modify rejected")
         /\ UNCHANGED entities
    ELSE IF HasError(modifyResult)
    THEN /\ last' = ToolError([ inv EXCEPT !.transactions = 1 ], modifyResult.error)
         /\ entities' = modifyResult.ents
    ELSE /\ last' = ToolSuccess([ inv EXCEPT !.transactions = 1 ])
         /\ entities' = modifyResult.ents

\* A handler from its doc.modify() to its return: modify() rejects and
\* nothing is applied, or what the callback did before it returned is
\* applied as one unit and the handler turns the value the callback
\* returned into the ToolResult.
Modify(inv, outcome, modifyResult) ==
    IF outcome = "rejected"
    THEN /\ last' = ToolError([ inv EXCEPT !.transactions = 1 ], "modify rejected")
         /\ UNCHANGED entities
    ELSE IF HasError(modifyResult)
    THEN /\ last' = ToolError([ inv EXCEPT !.transactions = 1 ], modifyResult.error)
         /\ entities' = modifyResult.ents
    ELSE /\ last' = ToolSuccess([ inv EXCEPT
                       !.transactions = 1,
                       !.removed = Cardinality(DOMAIN entities)
                                   - Cardinality(DOMAIN entities \cap DOMAIN modifyResult.ents) ])
         /\ entities' = modifyResult.ents

\* `Added ${resolvedType} at position (${posX}, ${posY}). Entity ID:
\* ${entity?.id}`
AddedText(resolvedType, posX, posY, modifyResult) ==
    IF "entity" \in DOMAIN modifyResult
    THEN << resolvedType, posX, posY, modifyResult.entity >>
    ELSE << >>

UnknownEntityTypeUnchecked(resolvedType) == FALSE

\* if (!resolvedType) { throw new Error(msg) }
UnknownEntityType(resolvedType) == resolvedType = Null

\* `Unknown entity type: '...'. Valid types: ${VALID_ENTITY_TYPES.join(", ")}`
UnknownEntityTypeError(inv) ==
    [ ToolError(inv, "Unknown entity type") EXCEPT
        !.content = VALID_ENTITY_TYPES ]

\* add-entity (lines 789-877).  The handler runs from the call to its
\* ToolResult; the next tool call is served after it.
AddEntityTool(entityType, properties, x, y, outcome) ==
    LET resolvedType == Resolved(entityType)
        posX == IF x = Omitted THEN autoLayoutOffset * 120 ELSE x[1]
        posY == IF y = Omitted THEN 0 ELSE y[1]
        modifyResult == CreateTransaction(entities, nextEntityId, resolvedType,
                                          properties, posX, posY)
        inv == [ Invocation("add-entity") EXCEPT
                   !.content = AddedText(resolvedType, posX, posY,
                                         modifyResult) ]
        created == /\ resolvedType # Null
                   /\ GetDocument = ""
                   /\ outcome = "applied"
                   /\ ~HasError(modifyResult)
    IN  /\ autoLayoutOffset < MaxOffset
        /\ nextEntityId <= MaxEntities
        /\ IF UnknownEntityType(resolvedType)
           THEN /\ last' = UnknownEntityTypeError(inv)
                /\ UNCHANGED << autoLayoutOffset, entities >>
           ELSE /\ autoLayoutOffset' = autoLayoutOffset + 1
                /\ IF GetDocument # ""
                   THEN /\ last' = ToolError(inv, GetDocument)
                        /\ UNCHANGED entities
                   ELSE Modify(inv, outcome, modifyResult)
        /\ nextEntityId' = IF created THEN nextEntityId + 1 ELSE nextEntityId
        /\ autoPlaced' =
              IF resolvedType # Null /\ x = Omitted /\ y = Omitted
              THEN Append(autoPlaced, << posX, posY >>)
              ELSE autoPlaced
        /\ UNCHANGED << audiotoolClient, document, docs >>

\* remove-entity, update-entity-value and update-entity-position: the
\* document check, the transaction, the ToolResult.
MutationTool(inv, outcome, modifyResult) ==
    /\ IF GetDocument # ""
       THEN /\ last' = ToolError(inv, GetDocument)
            /\ UNCHANGED entities
       ELSE Modify(inv, outcome, modifyResult)
    /\ UNCHANGED << audiotoolClient, document, docs, autoLayoutOffset,
                    nextEntityId, autoPlaced >>

\* z.boolean().optional().default(false)
DefaultFalse(arg) == IF arg = Omitted THEN FALSE ELSE arg[1]

\* remove-entity (lines 895-944)
RemoveEntityTool(entityID, removeDependencies, outcome) ==
    MutationTool(Invocation("remove-entity"), outcome,
                 RemoveTransaction(entities, entityID,
                                   DefaultFalse(removeDependencies)))

\* update-entity-value (lines 968-1027)
UpdateEntityValueTool(entityID, fieldName, value, outcome) ==
    MutationTool(Invocation("update-entity-value"), outcome,
                 UpdateValueTransaction(entities, entityID, fieldName, value))

\* update-entity-position (lines 1040-1103)
UpdateEntityPositionTool(entityID, x, y, outcome) ==
    MutationTool(Invocation("update-entity-position"), outcome,
                 UpdatePositionTransaction(entities, entityID, x, y,
                                           outcome))

\* value: z.number()
ZNumber(kind) == kind = "number"

INVALID_ARGUMENTS == "Invalid arguments"

\* A call whose arguments do not match the inputSchema of the tool is
\* answered without the handler being called.
InvalidArguments(inv) ==
    /\ last' = ToolError(inv, INVALID_ARGUMENTS)
    /\ UNCHANGED << audiotoolClient, document, docs, autoLayoutOffset,
                    entities, nextEntityId, autoPlaced >>

\* A call of update-entity-value: the arguments are parsed with the
\* inputSchema (lines 959-967), then the handler runs.
UpdateEntityValueCall(entityID, fieldName, kind, value) ==
    IF ZNumber(kind)
    THEN \E outcome \in ModifyOutcomes :
            UpdateEntityValueTool(entityID, fieldName, value, outcome)
    ELSE InvalidArguments(Invocation("update-entity-value"))

ListedUnfiltered(ents) == DOMAIN ents

\* doc.queryEntities.get().filter((e) => validSet.has(e.entityType))
Listed(ents) ==
    { e \in DOMAIN ents : Includes(VALID_ENTITY_TYPES, ents[e].entityType) }

\* fields.positionX?.value ?? null
ValueOrNull(fields, f) == IF f \in DOMAIN fields THEN fields[f] ELSE Null

\* allEntities.map(...): the projections of the listed entities with an
\* identifier of at least id, in the order of their identifiers.
RECURSIVE ListingFrom(_, _)
ListingFrom(ents, id) ==
    IF id > MaxEntities THEN << >>
    ELSE IF id \notin Listed(ents) THEN ListingFrom(ents, id + 1)
    ELSE << [ id |-> id, type |-> ents[id].entityType,
              positionX |-> ValueOrNull(ents[id].fields, "positionX"),
              positionY |-> ValueOrNull(ents[id].fields, "positionY") ] >>
         \o ListingFrom(ents, id + 1)

NO_ENTITIES == "No entities found in the project."

\* result.length > 0 ? JSON.stringify(result, null, 2) : "No entities ..."
ListEntitiesResult(inv, listing) ==
    IF listing = << >>
    THEN [ ToolSuccess(inv) EXCEPT !.message = NO_ENTITIES ]
    ELSE [ ToolSuccess(inv) EXCEPT !.content = listing ]

\* list-entities (lines 1116-1160)
ListEntitiesTool ==
    /\ last' = IF GetDocument # ""
               THEN ToolError(Invocation("list-entities"), GetDocument)
               ELSE ListEntitiesResult(Invocation("list-entities"),
                                       ListingFrom(entities, 1))
    /\ UNCHANGED << audiotoolClient, document, docs, autoLayoutOffset,
                    entities, nextEntityId, autoPlaced >>

\* getClient() (lines 526-544): the client, or the reason it throws.
GetClient(login) ==
    IF audiotoolClient # NoClient
    THEN [ client |-> audiotoolClient, error |-> "" ]
    ELSE IF login = "notLoggedIn"
    THEN [ client |-> NoClient, error |-> "User not logged in" ]
    ELSE IF login = "clientFails"
    THEN [ client |-> NoClient, error |-> "createAudiotoolClient failed" ]
    ELSE [ client |-> Client("static", 0), error |-> "" ]

\* open-document (lines 708-745).
OpenDocument(login, outcome) ==
    LET got == GetClient(login)
        inv == Invocation("open-document")
    IN  /\ Len(docs) < MaxDocuments + sessions
        /\ IF got.error # ""
           THEN /\ last' = ToolError(inv, got.error)
                /\ UNCHANGED << audiotoolClient, document, docs >>
           ELSE /\ audiotoolClient' = got.client
                /\ IF outcome = "createFails"
                   THEN /\ last' = ToolError(inv, "createSyncedDocument failed")
                        /\ UNCHANGED << document, docs >>
                   ELSE /\ document' = Len(docs) + 1
                        /\ docs' = Append(docs,
                              SyncedDocument(got.client, outcome = "ok"))
                        /\ last' = IF outcome = "startFails"
                                   THEN ToolError(inv, "start failed")
                                   ELSE ToolSuccess(inv)
        /\ UNCHANGED << autoLayoutOffset, entities, nextEntityId, autoPlaced >>

\* The connectivity observable of the held document changes.
ConnectionChange ==
    /\ document # 0
    /\ docs[document].started
    /\ docs' = [ docs EXCEPT ![document].connected = ~@ ]
    /\ UNCHANGED << audiotoolClient, document, autoLayoutOffset, entities,
                    nextEntityId, last, autoPlaced >>

\* Another collaborator attaches an entity to an existing one.
CollaboratorEdit ==
    /\ nextEntityId <= MaxEntities
    /\ \E target \in DOMAIN entities :
          entities' = [ e \in DOMAIN entities \cup {nextEntityId} |->
                          IF e = nextEntityId
                          THEN [ entityType |-> CABLE,
                                 fields |-> [ f \in {"gain"} |-> 0 ],
                                 pointsTo |-> target ]
                          ELSE entities[e] ]
    /\ nextEntityId' = nextEntityId + 1
    /\ UNCHANGED << audiotoolClient, document, docs, autoLayoutOffset,
                    last, autoPlaced >>

AddEntity ==
    \E entityType \in AddEntityTypes, properties \in AddEntityProperties,
       x \in OptionalCoordinates, y \in OptionalCoordinates,
       outcome \in ModifyOutcomes :
        AddEntityTool(entityType, properties, x, y, outcome)

RemoveEntity ==
    \E entityID \in EntityIds,
       removeDependencies \in { Omitted, Given(FALSE), Given(TRUE) },
       outcome \in ModifyOutcomes :
        RemoveEntityTool(entityID, removeDependencies, outcome)

UpdateEntityValue ==
    \E entityID \in EntityIds, fieldName \in FieldNames, value \in FieldValues,
       outcome \in ModifyOutcomes :
        UpdateEntityValueTool(entityID, fieldName, value, outcome)

\* update-entity-value called with a value of any JSON type.
UpdateEntityValueAnyKind ==
    \E entityID \in EntityIds, fieldName \in FieldNames \cup {IS_ACTIVE},
       kind \in ValueKinds :
        \E value \in ValuesOfKind(kind) :
            UpdateEntityValueCall(entityID, fieldName, kind, value)

UpdateEntityPosition ==
    \E entityID \in EntityIds, position \in NewPositions,
       outcome \in ModifyOutcomes :
        UpdateEntityPositionTool(entityID, position[1], position[2], outcome)

\* update-entity-position in a transaction whose updates may throw.
UpdateEntityPositionThrowing ==
    \E entityID \in EntityIds, position \in NewPositions,
       outcome \in ModifyOutcomes \cup UPDATE_THROWS :
        UpdateEntityPositionTool(entityID, position[1], position[2], outcome)

ListEntities == ListEntitiesTool

Open ==
    \E login \in {"loggedIn", "notLoggedIn", "clientFails"},
       outcome \in {"ok", "createFails", "startFails"} :
        OpenDocument(login, outcome)

(***************************************************************************)
(* server.ts: initialize-session.  The handler is followed from await to   *)
(* await, because the connectivity of the document and the 10 s timer      *)
(* change between them.  createAudiotoolClient, createSyncedDocument,      *)
(* start and the connectivity observable belong to @audiotool/nexus and    *)
(* are modelled as the specification describes them.                       *)
(***************************************************************************)
CONNECTION_TIMEOUT_MS == 10000

\* The instants at which the time left on a timer is looked at.
TimerInstants == { 0, 1, CONNECTION_TIMEOUT_MS }

SESSION_STEPS == << "tokenManager", "client", "document", "start", "connected" >>

InitSession ==
    /\ tokenManager = "null"
    /\ sessionPc = "idle"
    /\ sessions = 0
    /\ waits = << >>
    /\ trace = << >>

ClientAuthorizationStaticToken == "static"

\* createAudiotoolClient({ authorization: tokenManager })
ClientAuthorization == "tokenManager"

\* catch (error) { console.error(...); throw error; }
SessionCatch(msg) ==
    /\ last' = [ Invocation("initialize-session") EXCEPT
                    !.escaped = TRUE, !.message = msg ]
    /\ sessionPc' = "idle"

\* initialize-session, from the call to await createAudiotoolClient(...)
InitializeSession ==
    /\ sessionPc = "idle"
    /\ sessions < MaxSessions
    /\ sessions' = sessions + 1
    /\ tokenManager' = "constructed"
    /\ trace' = << SESSION_STEPS[1] >>
    /\ sessionPc' = "createClient"
    /\ UNCHANGED << waits, srvVars >>

\* createAudiotoolClient settles; on success createSyncedDocument is called.
ClientCreated(ok) ==
    /\ sessionPc = "createClient"
    /\ IF ok
       THEN /\ audiotoolClient' = Client(ClientAuthorization, sessions)
            /\ trace' = Append(trace, SESSION_STEPS[2])
            /\ sessionPc' = "createDocument"
            /\ UNCHANGED last
       ELSE /\ SessionCatch("createAudiotoolClient failed")
            /\ UNCHANGED << audiotoolClient, trace >>
    /\ UNCHANGED << tokenManager, sessions, waits, document, docs,
                    autoLayoutOffset, entities, nextEntityId, autoPlaced >>

\* createSyncedDocument settles; on success document.start() is called.
DocumentCreated(ok) ==
    /\ sessionPc = "createDocument"
    /\ IF ok
       THEN /\ docs' = Append(docs, SyncedDocument(audiotoolClient, FALSE))
            /\ document' = Len(docs) + 1
            /\ trace' = Append(trace, SESSION_STEPS[3])
            /\ sessionPc' = "start"
            /\ UNCHANGED last
       ELSE /\ SessionCatch("createSyncedDocument failed")
            /\ UNCHANGED << document, docs, trace >>
    /\ UNCHANGED << tokenManager, sessions, waits, audiotoolClient,
                    autoLayoutOffset, entities, nextEntityId, autoPlaced >>

WaitForConnectionWithoutCheck(doc, connected) ==
    [ doc |-> doc, subscription |-> "active", timer |-> "armed",
      promise |-> "pending", remaining |-> CONNECTION_TIMEOUT_MS ]

\* The executor of waitForConnection (lines 654-678): resolve at once when
\* the document is connected, else subscribe and start the timer.
WaitForConnection(doc, connected) ==
    IF connected
    THEN [ doc |-> doc, subscription |-> "none", timer |-> "none",
           promise |-> "resolved", remaining |-> 0 ]
    ELSE [ doc |-> doc, subscription |-> "active", timer |-> "armed",
           promise |-> "pending", remaining |-> CONNECTION_TIMEOUT_MS ]

\* document.start() settles; on success the wait for the connection begins.
Started(ok) ==
    /\ sessionPc = "start"
    /\ IF ok
       THEN /\ docs' = [ docs EXCEPT ![document].started = TRUE ]
            /\ waits' = Append(waits,
                  WaitForConnection(document, docs[document].connected))
            /\ trace' = IF docs[document].connected
                        THEN trace \o << SESSION_STEPS[4], SESSION_STEPS[5] >>
                        ELSE Append(trace, SESSION_STEPS[4])
            /\ sessionPc' = IF docs[document].connected THEN "settled"
                            ELSE "waiting"
            /\ UNCHANGED last
       ELSE /\ SessionCatch("start failed")
            /\ UNCHANGED << docs, waits, trace >>
    /\ UNCHANGED << tokenManager, sessions, audiotoolClient, document,
                    autoLayoutOffset, entities, nextEntityId, autoPlaced >>

OnConnectedKeepsSubscription(wait) ==
    [ wait EXCEPT !.promise = IF @ = "pending" THEN "resolved" ELSE @ ]

\* The subscriber called with true: subscription.terminate(); resolve()
OnConnected(wait) ==
    [ wait EXCEPT !.subscription = "terminated",
                  !.promise = IF @ = "pending" THEN "resolved" ELSE @ ]

\* The connectivity observable of a document whose start() was called
\* changes, and its subscribers are told the new value.
Notify(d, isConnected) ==
    [ w \in DOMAIN waits |->
        IF waits[w].doc = d /\ waits[w].subscription = "active" /\ isConnected
        THEN OnConnected(waits[w])
        ELSE waits[w] ]

\* The wait of the invocation in progress.
CurrentWait == Len(waits)

SessionConnectionChange(d) ==
    /\ docs[d].started \/ (d = document /\ sessionPc = "start")
    /\ docs' = [ docs EXCEPT ![d].connected = ~@ ]
    /\ waits' = Notify(d, ~docs[d].connected)
    /\ IF sessionPc = "waiting" /\ waits'[CurrentWait].promise = "resolved"
       THEN /\ sessionPc' = "settled"
            /\ trace' = Append(trace, SESSION_STEPS[5])
       ELSE UNCHANGED << sessionPc, trace >>
    /\ UNCHANGED << tokenManager, sessions, audiotoolClient, document,
                    autoLayoutOffset, entities, nextEntityId, last,
                    autoPlaced >>

Armed == { w \in DOMAIN waits : waits[w].timer = "armed" }

\* The least time left on an armed timer.
LeastRemaining ==
    CHOOSE r \in { waits[w].remaining : w \in Armed } :
        \A w \in Armed : r <= waits[w].remaining

\* Time passes up to the next instant of the timer that is due first.
SessionTick ==
    /\ Armed # {}
    /\ LeastRemaining > 0
    /\ LET next == CHOOSE i \in TimerInstants :
                      /\ i < LeastRemaining
                      /\ \A j \in TimerInstants : j < LeastRemaining => j <= i
           d == LeastRemaining - next
       IN  waits' = [ w \in DOMAIN waits |->
                        IF w \in Armed
                        THEN [ waits[w] EXCEPT !.remaining = @ - d ]
                        ELSE waits[w] ]
    /\ UNCHANGED << tokenManager, sessionPc, sessions, trace, srvVars >>

TimeoutRejectsSettled(wait) ==
    [ wait EXCEPT !.timer = "fired",
                  !.subscription = "terminated",
                  !.promise = "rejected" ]

TimeoutWithoutReject(wait) ==
    [ wait EXCEPT !.timer = "fired", !.subscription = "terminated" ]

\* setTimeout callback: subscription.terminate(); reject(new Error(...))
Timeout(wait) ==
    [ wait EXCEPT !.timer = "fired",
                  !.subscription = "terminated",
                  !.promise = IF @ = "pending" THEN "rejected" ELSE @ ]

TimerFire(w) ==
    /\ waits[w].timer = "armed"
    /\ waits[w].remaining = 0
    /\ waits' = [ waits EXCEPT ![w] = Timeout(waits[w]) ]
    /\ sessionPc' = IF sessionPc = "waiting" /\ w = CurrentWait
                       /\ waits'[w].promise # "pending"
                    THEN "settled" ELSE sessionPc
    /\ UNCHANGED << tokenManager, sessions, trace, srvVars >>

\* await waitForConnection returns or throws; the handler ends.
SessionReturn ==
    /\ sessionPc = "settled"
    /\ IF waits[CurrentWait].promise = "resolved"
       THEN /\ last' = ToolSuccess(Invocation("initialize-session"))
            /\ sessionPc' = "idle"
       ELSE SessionCatch("Connection timeout after 10 seconds")
    /\ UNCHANGED << tokenManager, sessions, waits, trace, audiotoolClient,
                    document, docs, autoLayoutOffset, entities, nextEntityId,
                    autoPlaced >>

\* open-document between two initialize-session invocations.
SessionOpen == sessionPc = "idle" /\ Open /\ UNCHANGED sessVars

ClientSettles == \E ok \in BOOLEAN : ClientCreated(ok)
DocumentSettles == \E ok \in BOOLEAN : DocumentCreated(ok)
StartSettles == \E ok \in BOOLEAN : Started(ok)
ConnectivityChanges == \E d \in DOMAIN docs : SessionConnectionChange(d)
TimerFires == \E w \in DOMAIN waits : TimerFire(w)

TMIdle ==
    /\ InitTM
    /\ expiresAt = 60000
    /\ refreshToken = Undefined

(***************************************************************************)
(* The specifications.                                                     *)
(***************************************************************************)
Init == InitTM /\ ResolveIdle /\ StyleIdle /\ InitServer /\ InitSession

Next ==
    \/ Tick /\ UNCHANGED << fnVars, srvVars, sessVars >>
    \/ Call /\ UNCHANGED << fnVars, srvVars, sessVars >>
    \/ Respond /\ UNCHANGED << fnVars, srvVars, sessVars >>
    \/ Continue /\ UNCHANGED << fnVars, srvVars, sessVars >>

Spec == Init /\ [][Next]_vars

RECOMMEND_TOOL == "recommend-entity-for-style"

\* The descriptions recommend-entity-for-style is invoked with: one with a
\* keyword of STYLE_MAP, one in capitals, one without a keyword, the empty one.
ToolDescriptions ==
    { WARM_AMBIENT_PAD, << "T", "e", "c", "h", "n", "o" >>,
      << "j", "a", "z", "z" >>, << >> }

RecommendationFailsWithoutDocument(inv, rec) ==
    IF document = 0 THEN ToolError(inv, "No document open")
    ELSE ToolSuccess([ inv EXCEPT !.content = << rec.entityType, rec.reason >> ])

\* return { content: [{ type: "text", text: JSON.stringify(rec) }] }
RecommendationResult(inv, rec) ==
    ToolSuccess([ inv EXCEPT !.content = << rec.entityType, rec.reason >> ])

\* recommendEntityForStyle on the descriptions of the tool, computed once.
Recommendations ==
    { << text, RecommendEntityForStyle(text) >> : text \in ToolDescriptions }

Recommended(text) == (CHOOSE r \in Recommendations : r[1] = text)[2]

\* server.registerTool("recommend-entity-for-style", ...)
RecommendEntityForStyleTool(text) ==
    LET rec == Recommended(text)
    IN  /\ description' = text
        /\ recommendation' = rec
        /\ last' = RecommendationResult(
                       Invocation(RECOMMEND_TOOL), rec)
        /\ UNCHANGED << stylePc, audiotoolClient, document, docs,
                        autoLayoutOffset, entities, nextEntityId, autoPlaced >>

RecommendEntityForStyleCall ==
    \E text \in ToolDescriptions : RecommendEntityForStyleTool(text)

InitResolver ==
    InitResolve /\ TMIdle /\ StyleIdle /\ InitServer /\ InitSession

NextResolver ==
    \/ Resolve /\ UNCHANGED << tmVars, styleVars, srvVars, sessVars >>
    \/ NextInput /\ UNCHANGED << tmVars, styleVars, srvVars, sessVars >>

SpecResolver == InitResolver /\ [][NextResolver]_vars

InitAdvisor ==
    InitStyle /\ TMIdle /\ ResolveIdle /\ InitServer /\ InitSession

NextAdvisor ==
    \/ Recommend /\ UNCHANGED << tmVars, resolverVars, srvVars, sessVars >>
    \/ NextDescription /\ UNCHANGED << tmVars, resolverVars, srvVars, sessVars >>

SpecAdvisor == InitAdvisor /\ [][NextAdvisor]_vars

InitTools ==
    InitServer /\ TMIdle /\ ResolveIdle /\ StyleIdle /\ InitSession

NextTools ==
    \/ Open /\ UNCHANGED << tmVars, fnVars, sessVars >>
    \/ ConnectionChange /\ UNCHANGED << tmVars, fnVars, sessVars >>
    \/ CollaboratorEdit /\ UNCHANGED << tmVars, fnVars, sessVars >>
    \/ AddEntity /\ UNCHANGED << tmVars, fnVars, sessVars >>
    \/ RemoveEntity /\ UNCHANGED << tmVars, fnVars, sessVars >>
    \/ UpdateEntityValue /\ UNCHANGED << tmVars, fnVars, sessVars >>
    \/ UpdateEntityPosition /\ UNCHANGED << tmVars, fnVars, sessVars >>
    \/ ListEntities /\ UNCHANGED << tmVars, fnVars, sessVars >>

SpecTools == InitTools /\ [][NextTools]_vars

\* The update tools with every kind of argument and with updates that
\* throw, on the entities that add-entity created.
NextUpdates ==
    \/ Open /\ UNCHANGED << tmVars, fnVars, sessVars >>
    \/ ConnectionChange /\ UNCHANGED << tmVars, fnVars, sessVars >>
    \/ AddEntity /\ UNCHANGED << tmVars, fnVars, sessVars >>
    \/ UpdateEntityValueAnyKind /\ UNCHANGED << tmVars, fnVars, sessVars >>
    \/ UpdateEntityPositionThrowing /\ UNCHANGED << tmVars, fnVars, sessVars >>

SpecUpdates == InitTools /\ [][NextUpdates]_vars

InitSessions ==
    InitSession /\ InitServer /\ TMIdle /\ ResolveIdle /\ StyleIdle

NextSession ==
    \/ InitializeSession /\ UNCHANGED << tmVars, fnVars >>
    \/ ClientSettles /\ UNCHANGED << tmVars, fnVars >>
    \/ DocumentSettles /\ UNCHANGED << tmVars, fnVars >>
    \/ StartSettles /\ UNCHANGED << tmVars, fnVars >>
    \/ ConnectivityChanges /\ UNCHANGED << tmVars, fnVars >>
    \/ SessionTick /\ UNCHANGED << tmVars, fnVars >>
    \/ TimerFires /\ UNCHANGED << tmVars, fnVars >>
    \/ SessionReturn /\ UNCHANGED << tmVars, fnVars >>
    \/ SessionOpen /\ UNCHANGED << tmVars, fnVars >>

SpecSession == InitSessions /\ [][NextSession]_vars

\* Timers fire and settled promises resume their awaiters while the event
\* loop is idle, and time does not stop.
SpecSessionLive ==
    /\ InitSessions
    /\ [][NextSession]_vars
    /\ WF_vars(SessionTick /\ UNCHANGED << tmVars, fnVars >>)
    /\ WF_vars(TimerFires /\ UNCHANGED << tmVars, fnVars >>)
    /\ WF_vars(SessionReturn /\ UNCHANGED << tmVars, fnVars >>)

\* recommend-entity-for-style invoked at any moment: before a client or a
\* document exists, with a document that is connected or not, and between
\* invocations of add-entity.
NextAdvice ==
    \/ Open /\ UNCHANGED << tmVars, fnVars, sessVars >>
    \/ ConnectionChange /\ UNCHANGED << tmVars, fnVars, sessVars >>
    \/ AddEntity /\ UNCHANGED << tmVars, fnVars, sessVars >>
    \/ RecommendEntityForStyleCall
           /\ UNCHANGED << tmVars, resolverVars, sessVars >>

SpecAdvice == InitTools /\ [][NextAdvice]_vars

(***************************************************************************)
(* Claims about the TokenManager, checked under Spec.                      *)
(***************************************************************************)
Credential == << accessToken, refreshToken, expiresAt, clientId >>

PastBuffer == now >= expiresAt - 60000

\* C1: every getToken() call that found the credential past the expiry
\* buffer with a refresh token present, and that did not arrive while the
\* callers of an answered refresh were still being resumed, takes part in
\* exactly one refresh request (it issued the request itself or found it
\* pending), and when that request succeeded it resolves to the access
\* token stored by that refresh.
C1_OneRefreshPerOverlap ==
    \A c \in Callers :
        ( /\ pc[c] = "returned"
          /\ entry[c].expired
          /\ entry[c].hadRefreshToken
          /\ ~entry[c].settling )
        => /\ awaiting[c] # 0
           /\ issued[c] = 1 \/ entry[c].pending
           /\ promises[awaiting[c]].state = "fulfilled"
                 => result[c] = StringResult(promises[awaiting[c]].token)

\* C2: at most one refresh request is outstanding, and a caller that arrived
\* while a refresh was pending issued no request and awaits that refresh.
C2_SingleFlight ==
    /\ Cardinality(Outstanding) <= 1
    /\ \A c \in Callers :
          entry[c].pending => issued[c] = 0 /\ awaiting[c] = entry[c].promise

C2_Witness ==
    \E c, d \in Callers :
        /\ c # d
        /\ pc[c] = "line58" /\ issued[c] = 1
        /\ pc[d] = "line52" /\ entry[d].pending
        /\ awaiting[d] = awaiting[c]
        /\ Outstanding = { awaiting[c] }

\* C3: a getToken() call made while expiresAt - now > 60000 issues no
\* request, returns the stored access token and leaves the credential and
\* the pending-refresh marker unchanged.
C3_FreshTokenNoRefresh ==
    [][ \A c \in Callers :
          (GetToken(c) /\ expiresAt - now > 60000)
          => /\ pc'[c] = "returned"
             /\ result'[c] = StringResult(accessToken)
             /\ issued'[c] = 0
             /\ UNCHANGED << Credential, refreshPromise, promises >> ]_vars

C3_Witness ==
    \E c \in Callers :
        /\ pc[c] = "returned"
        /\ ~entry[c].expired
        /\ result[c] = StringResult(entry[c].token)
        /\ expiresAt - now > 60000
        /\ expiresAt - now <= 120000

\* C4: a getToken() call made past the expiry buffer with no refresh token
\* held resolves to an Error, issues no request and leaves the credential
\* unchanged.
C4_NoRefreshTokenFails ==
    [][ \A c \in Callers :
          (GetToken(c) /\ PastBuffer /\ ~Truthy(refreshToken))
          => /\ pc'[c] = "returned"
             /\ result'[c].tag = "Error"
             /\ issued'[c] = 0
             /\ UNCHANGED << Credential, refreshPromise, promises >> ]_vars

C4_Witness ==
    \E c \in Callers :
        /\ pc[c] = "returned"
        /\ entry[c].expired
        /\ ~entry[c].hadRefreshToken
        /\ result[c].tag = "Error"
        /\ promises = << >>

\* C5: no getToken() invocation throws; an invocation whose awaited refresh
\* (its own or a shared one) failed resolves to an Error; and no invocation
\* issues more than one refresh request.
C5_FailureIsAValue ==
    \A c \in Callers :
        /\ ~threw[c]
        /\ issued[c] <= 1
        /\ pc[c] = "returned" => result[c].tag \in {"string", "Error"}
        /\ ( /\ pc[c] = "returned"
             /\ awaiting[c] # 0
             /\ promises[awaiting[c]].state = "rejected" )
           => result[c].tag = "Error"

C5_Witness ==
    \E c, d \in Callers :
        /\ pc[c] = "returned" /\ issued[c] = 1
        /\ pc[d] = "returned" /\ issued[d] = 0
        /\ awaiting[c] # 0 /\ awaiting[d] = awaiting[c]
        /\ promises[awaiting[c]].state = "rejected"
        /\ result[c].tag = "Error" /\ result[d].tag = "Error"

\* C16: after a failed refresh the pending-refresh marker is cleared, so
\* that a getToken() call made once the callers of the failed refresh have
\* been resumed, on a credential still past the expiry buffer with a refresh
\* token held, issues a new refresh request.
C16_RetryAfterFailure ==
    /\ (microtasks = << >> /\ refreshPromise # 0) => Pending(refreshPromise)
    /\ \A c \in Callers :
          ( /\ pc[c] # "idle"
            /\ entry[c].expired
            /\ entry[c].hadRefreshToken
            /\ ~entry[c].pending
            /\ ~entry[c].settling )
          => issued[c] = 1 /\ awaiting[c] # entry[c].promise

C18_AtomicReplace ==
    [][ \A p \in DOMAIN promises : \A data \in TokenResponses(p) :
          (Truthy(data.access_token) /\ RefreshAccessToken(p, data))
          => /\ accessToken' = data.access_token
             /\ expiresAt' = now + data.expires_in * 1000
             /\ refreshToken' = IF Truthy(data.refresh_token)
                                THEN data.refresh_token ELSE refreshToken
             /\ clientId' = clientId ]_vars

\* The stored access token is returned at once, without a refresh.
NoRefreshPath(c) ==
    /\ pc'[c] = "returned"
    /\ result'[c] = StringResult(accessToken)
    /\ issued'[c] = 0
    /\ UNCHANGED << Credential, refreshPromise, promises >>

\* C19: getToken() returns the stored token without a refresh exactly when
\* now <= expiresAt - 60001, takes the refresh path from
\* now = expiresAt - 60000 on, and isValid() is true exactly when getToken()
\* would not refresh.
C19_ExpiryBoundary ==
    [][ \A c \in Callers :
          GetToken(c)
          => /\ NoRefreshPath(c) <=> now <= expiresAt - 60001
             /\ IsValid <=> NoRefreshPath(c) ]_vars

\* One call was made at now = expiresAt - 60001 and returned the stored
\* token, the next at now = expiresAt - 60000 and issued a refresh request.
C19_Witness ==
    \E c, d \in Callers :
        /\ pc[c] = "returned" /\ ~entry[c].expired
        /\ result[c] = StringResult(entry[c].token)
        /\ pc[d] = "line58" /\ entry[d].expired /\ issued[d] = 1
        /\ now = 1
        /\ now = expiresAt - 60000

\* C20: when getToken() returns an access token after a refresh it issued or
\* awaited, the stored credential is outside the expiry buffer at that
\* instant, whatever the successful response carried.
C20_FreshAfterRefresh ==
    [][ \A c \in Callers :
          (Resume(c) /\ result'[c].tag = "string")
          => expiresAt - now > 60000 ]_vars

\* The invocation of c found a refresh promise stored, awaited it (line 52)
\* and has returned.
AwaitedShared(c) ==
    /\ pc[c] = "returned"
    /\ entry[c].expired /\ entry[c].hadRefreshToken
    /\ entry[c].promise # 0

\* C21: an invocation that awaited a refresh it found in flight returns a
\* string only when that refresh was fulfilled; when it was rejected the
\* invocation resolves to an Error, never to the access token held before.
C21_SharedFailureReachesAll ==
    \A c \in Callers :
        AwaitedShared(c) =>
            /\ result[c].tag = "string"
                 => promises[entry[c].promise].state = "fulfilled"
            /\ promises[entry[c].promise].state = "rejected"
                 => /\ result[c].tag = "Error"
                    /\ result[c] # StringResult(entry[c].token)
                    /\ ~threw[c]

C21_Witness ==
    \E c, d \in Callers :
        /\ c # d
        /\ AwaitedShared(c) /\ entry[c].pending
        /\ pc[d] = "returned" /\ issued[d] = 1
        /\ awaiting[d] = entry[c].promise
        /\ promises[entry[c].promise].state = "rejected"
        /\ result[c].tag = "Error" /\ result[d].tag = "Error"

\* C22: a TokenManager that holds a refresh token holds one after every
\* step; a successful refresh stores the refresh_token of the response when
\* it carries one and keeps the previous one otherwise; clientId never
\* changes.
C22_RefreshTokenKept ==
    [][ /\ clientId' = clientId
        /\ Truthy(refreshToken) => Truthy(refreshToken')
        /\ \A p \in DOMAIN promises :
              (Pending(p) /\ promises'[p].state = "fulfilled")
              => \/ refreshToken' = refreshToken
                 \/ refreshToken' \in ResponseRefreshToken \ {Undefined}
        /\ refreshToken' # refreshToken
              => \E p \in DOMAIN promises :
                    Pending(p) /\ promises'[p].state = "fulfilled" ]_vars

\* A refresh whose response carried no refresh_token has succeeded, and the
\* refresh token the TokenManager was constructed with is still held.
C22_Witness ==
    /\ \E p \in DOMAIN promises :
          /\ promises[p].state = "fulfilled"
          /\ promises[p].token = IssuedAccessToken(p)
    /\ refreshToken = "r0"
    /\ clientId = "client"

(***************************************************************************)
(* Claims about the tool handlers, checked under SpecTools.                *)
(***************************************************************************)
\* C6: no two add-entity calls that omit the coordinates are given the same
\* (x, y), and when the first of them was placed at x = 0 the second is
\* placed at x = 120.
C6_AutoPlacedApart ==
    /\ \A i, j \in 1..Len(autoPlaced) : i # j => autoPlaced[i] # autoPlaced[j]
    /\ Len(autoPlaced) >= 2 /\ autoPlaced[1][1] = 0 => autoPlaced[2][1] = 120

\* C30: autoLayoutOffset grows by one in a step in which an add-entity call
\* that omitted both coordinates created its entity, and is unchanged by
\* every other step: add-entity calls with explicit coordinates, add-entity
\* calls that fail, open-document and the other tools.
C30_CounterCountsAutoPlaced ==
    [][ autoLayoutOffset' =
          IF /\ Len(autoPlaced') = Len(autoPlaced) + 1
             /\ nextEntityId' = nextEntityId + 1
             /\ last'.tool = "add-entity"
             /\ ~last'.isError
          THEN autoLayoutOffset + 1
          ELSE autoLayoutOffset ]_vars

\* C31: an add-entity call whose entityType resolves to nothing returns
\* isError = true with the list of the valid types, in every state of the
\* session; it submits no transaction and changes neither autoLayoutOffset
\* nor the held document nor the entities.
C31_UnknownTypeRejectedFirst ==
    [][ \A entityType \in AddEntityTypes, properties \in AddEntityProperties,
           x \in OptionalCoordinates, y \in OptionalCoordinates,
           outcome \in ModifyOutcomes :
          ( /\ last'.tool = "add-entity"
            /\ Resolved(entityType) = Null
            /\ AddEntityTool(entityType, properties, x, y, outcome) )
          => /\ last'.isError /\ ~last'.escaped
             /\ last'.message = "Unknown entity type"
             /\ last'.content = VALID_ENTITY_TYPES
             /\ last'.transactions = 0
             /\ UNCHANGED << autoLayoutOffset, document, docs, entities,
                             nextEntityId, autoPlaced >> ]_vars

\* The call was rejected for its type while a connected document was held
\* and after the counter had advanced.
C31_Witness ==
    /\ last.tool = "add-entity"
    /\ last.message = "Unknown entity type"
    /\ GetDocument = ""
    /\ autoLayoutOffset > 0

\* C32: an add-entity call that returns its success result has submitted
\* one transaction that added exactly one entity and changed no other; the
\* new entity has the resolved type, positionX and positionY are the
\* coordinates given or assigned (whatever the caller's properties say), the
\* other properties are the caller's, and the result names the resolved
\* type, the coordinates and the identifier of the new entity.
C32_AddEntityCreatesOne ==
    [][ \A entityType \in AddEntityTypes, properties \in AddEntityProperties,
           x \in OptionalCoordinates, y \in OptionalCoordinates,
           outcome \in ModifyOutcomes :
          ( /\ last'.tool = "add-entity"
            /\ ~last'.isError
            /\ AddEntityTool(entityType, properties, x, y, outcome) )
          => LET posX == IF x = Omitted THEN autoLayoutOffset * 120 ELSE x[1]
                 posY == IF y = Omitted THEN 0 ELSE y[1]
             IN  /\ last'.transactions = 1
                 /\ \E id \in DOMAIN entities' \ DOMAIN entities :
                       /\ DOMAIN entities' = DOMAIN entities \cup {id}
                       /\ \A e \in DOMAIN entities :
                             entities'[e] = entities[e]
                       /\ entities'[id].entityType = Resolved(entityType)
                       /\ Includes(VALID_ENTITY_TYPES,
                                   entities'[id].entityType)
                       /\ entities'[id].fields["positionX"] = posX
                       /\ entities'[id].fields["positionY"] = posY
                       /\ \A f \in DOMAIN properties \ POSITION_FIELDS :
                             entities'[id].fields[f] = properties[f]
                       /\ last'.content =
                             << Resolved(entityType), posX, posY, id >> ]_vars

\* An entity was created under a type that is not the entityType given, at
\* an assigned position that is not the positionX of the caller's
\* properties.
C32_Witness ==
    /\ last.tool = "add-entity"
    /\ ~last.isError
    /\ last.content # << >>
    /\ last.content[1] \notin AddEntityTypes
    /\ last.content[2] = 120
    /\ last.content[4] \in DOMAIN entities
    /\ entities[last.content[4]].fields["positionX"] = 120

(***************************************************************************)
(* Claims about resolveEntityType, checked under SpecResolver.             *)
(***************************************************************************)
CatalogSet == { VALID_ENTITY_TYPES[k] : k \in 1..Len(VALID_ENTITY_TYPES) }

AliasKeys == { ENTITY_TYPE_ALIASES[k][1] : k \in 1..Len(ENTITY_TYPE_ALIASES) }

AliasOf(key) ==
    ENTITY_TYPE_ALIASES[CHOOSE k \in 1..Len(ENTITY_TYPE_ALIASES) :
                           ENTITY_TYPE_ALIASES[k][1] = key][2]

\* The four rules in their order, applied to the input without its
\* surrounding white space.
FirstMatchingRule(raw) ==
    LET word == Trim(raw)
        lower == ToLowerCase(word)
    IN  IF word \in CatalogSet THEN word
        ELSE IF lower \in AliasKeys THEN AliasOf(lower)
        ELSE IF \E t \in CatalogSet : ToLowerCase(t) = lower
        THEN CHOOSE t \in CatalogSet : ToLowerCase(t) = lower
        ELSE FuzzyMatch(lower)

\* The least number of insertions, deletions and substitutions of one
\* character that turn a into b: row i of the table of the distances
\* between the prefixes of a and b.
RECURSIVE EditDistanceRow(_, _, _, _, _)
EditDistanceRow(a, b, i, prev, row) ==
    IF Len(row) = Len(b) + 1 THEN row
    ELSE LET j == Len(row)
             substitution == prev[j] + (IF a[i] = b[j] THEN 0 ELSE 1)
         IN  EditDistanceRow(a, b, i, prev,
                 Append(row, Min3(prev[j + 1] + 1, row[j] + 1, substitution)))

RECURSIVE EditDistanceRows(_, _, _, _)
EditDistanceRows(a, b, i, prev) ==
    IF i > Len(a) THEN prev
    ELSE EditDistanceRows(a, b, i + 1, EditDistanceRow(a, b, i, prev, << i >>))

EditDistance(a, b) ==
    EditDistanceRows(a, b, 1, [ j \in 1..(Len(b) + 1) |-> j - 1 ])[Len(b) + 1]

\* The input matches none of the rules exact, alias and case-insensitive.
NoEarlierRule(raw) ==
    /\ Trim(raw) \notin CatalogSet
    /\ ToLowerCase(Trim(raw)) \notin AliasKeys
    /\ \A t \in CatalogSet : ToLowerCase(t) # ToLowerCase(Trim(raw))

\* C38: for an input that matches no exact, alias or case-insensitive rule
\* resolveEntityType returns the first catalog entry among those nearest in
\* edit distance to the lower-cased input when that distance is at most 3
\* and none when it is more; levenshtein computes the edit distance;
\* "hisenberg" resolves to heisenberg and "xyz123" to none.
C38_FuzzyNearestWithinThree ==
    (resolvePc = "done" /\ NoEarlierRule(input)) =>
        LET lower == ToLowerCase(Trim(input))
            Distance(k) ==
                EditDistance(lower, ToLowerCase(VALID_ENTITY_TYPES[k]))
            nearest ==
                CHOOSE k \in 1..Len(VALID_ENTITY_TYPES) :
                    \A h \in 1..Len(VALID_ENTITY_TYPES) :
                        \/ Distance(k) < Distance(h)
                        \/ Distance(k) = Distance(h) /\ k <= h
        IN  /\ \A k \in 1..Len(VALID_ENTITY_TYPES) :
                  Levenshtein(lower, ToLowerCase(VALID_ENTITY_TYPES[k]))
                      = Distance(k)
            /\ resolved = IF Distance(nearest) <= 3
                          THEN VALID_ENTITY_TYPES[nearest]
                          ELSE Null
            /\ input = HISENBERG => resolved = VALID_ENTITY_TYPES[1]
            /\ input = XYZ123 => resolved = Null

\* C39: resolveEntityType returns none or a member of the catalog, and
\* resolving a returned type gives that same type; every entityType that
\* recommendEntityForStyle can return, the default included, is a member of
\* the catalog and resolves to itself.
C39_ResolvesIntoCatalog ==
    resolvePc = "done" =>
        /\ resolved \in CatalogSet \cup { Null }
        /\ resolved # Null => ResolveEntityType(resolved) = resolved
        /\ \A t \in { STYLE_MAP[k][2] : k \in 1..Len(STYLE_MAP) }
                     \cup { DEFAULT_RECOMMENDATION.entityType } :
               t \in CatalogSet /\ ResolveEntityType(t) = t

\* C7: resolveEntityType returns the result of the first matching rule in
\* the order exact match, alias table, case-insensitive match, fuzzy match;
\* so "heisenberg" and "HEISENBERG" resolve to heisenberg and "machinedrum"
\* to machiniste.
C7_FirstRuleWins ==
    resolvePc = "done" =>
        /\ resolved = FirstMatchingRule(input)
        /\ input = VALID_ENTITY_TYPES[1] => resolved = VALID_ENTITY_TYPES[1]
        /\ input = ToUpperCase(VALID_ENTITY_TYPES[1])
              => resolved = VALID_ENTITY_TYPES[1]
        /\ input = ENTITY_TYPE_ALIASES[1][1] => resolved = VALID_ENTITY_TYPES[3]

(***************************************************************************)
(* Claims about remove-entity and the update tools, under SpecTools.       *)
(***************************************************************************)
HasDependents(entityID) ==
    \E e \in DOMAIN entities : entities[e].pointsTo = entityID

\* C8: remove-entity on an existing entity that has dependents removes, in
\* one transaction, exactly the named entity when removeDependencies is
\* false or omitted (every dependent stays as it was), and the entity with
\* all of its dependents when removeDependencies is true.
C8_RemoveEntityDependents ==
    [][ \A entityID \in EntityIds,
           removeDependencies \in { Omitted, Given(FALSE), Given(TRUE) } :
          ( /\ GetDocument = ""
            /\ entityID \in DOMAIN entities
            /\ HasDependents(entityID)
            /\ RemoveEntityTool(entityID, removeDependencies, "applied") )
          => /\ ~last'.isError
             /\ last'.transactions = 1
             /\ DOMAIN entities' =
                   IF removeDependencies = Given(TRUE)
                   THEN DOMAIN entities \ DependentsOf(entities, {entityID})
                   ELSE DOMAIN entities \ {entityID}
             /\ \A e \in DOMAIN entities' : entities'[e] = entities[e] ]_vars

\* One remove-entity call has removed an entity together with a dependent.
C8_Witness ==
    /\ last.tool = "remove-entity"
    /\ ~last.isError
    /\ last.transactions = 1
    /\ last.removed >= 2

\* C9: remove-entity, update-entity-value and update-entity-position, called
\* on the open, connected document with an entityID that names no entity,
\* return a ToolResult with isError = true; nothing escapes the handler.
C9_NotFoundIsError ==
    [][ \A entityID \in EntityIds :
          ( /\ GetDocument = ""
            /\ entityID \notin DOMAIN entities
            /\ \E outcome \in ModifyOutcomes :
                  \/ \E removeDependencies \in { Omitted, Given(FALSE), Given(TRUE) } :
                        RemoveEntityTool(entityID, removeDependencies, outcome)
                  \/ \E fieldName \in FieldNames, value \in FieldValues :
                        UpdateEntityValueTool(entityID, fieldName, value, outcome)
                  \/ \E position \in NewPositions :
                        UpdateEntityPositionTool(entityID, position[1],
                                                 position[2], outcome) )
          => /\ last'.isError
             /\ ~last'.escaped
             /\ entities' = entities ]_vars

\* A call on the connected document ended with the error of its transaction
\* while entities exist that the identifier could have named.
C9_Witness ==
    /\ GetDocument = ""
    /\ last.tool \in { "remove-entity", "update-entity-value",
                       "update-entity-position" }
    /\ last.isError
    /\ last.transactions = 1
    /\ last.message = "Entity not found"
    /\ DOMAIN entities # {}

\* No document is held, or the held document's connectivity observable is
\* false.
NoConnectedDocument == document = 0 \/ ~docs[document].connected

DocumentTools ==
    { "add-entity", "remove-entity", "update-entity-value",
      "update-entity-position", "list-entities" }

\* C11: add-entity with a resolvable type, remove-entity,
\* update-entity-value, update-entity-position and list-entities, called
\* while no document is held or while the held document is not connected,
\* return a ToolResult with isError = true and submit no transaction.
C11_NoDocumentIsError ==
    [][ ( /\ NoConnectedDocument
          /\ \/ \E entityType \in AddEntityTypes,
                   properties \in AddEntityProperties,
                   x \in OptionalCoordinates, y \in OptionalCoordinates,
                   outcome \in ModifyOutcomes :
                    /\ Resolved(entityType) # Null
                    /\ AddEntityTool(entityType, properties, x, y, outcome)
             \/ RemoveEntity
             \/ UpdateEntityValue
             \/ UpdateEntityPosition
             \/ ListEntities )
        => /\ last'.tool \in DocumentTools
           /\ last'.isError
           /\ ~last'.escaped
           /\ last'.transactions = 0
           /\ entities' = entities ]_vars

\* A document tool has failed on a document that open-document returned
\* and that is not connected.
C11_Witness ==
    /\ document # 0
    /\ docs[document].started
    /\ ~docs[document].connected
    /\ last.tool \in DocumentTools
    /\ last.isError
    /\ last.message = "Document is not connected"
    /\ last.transactions = 0

C34_ValueOfThreeKinds ==
    [][ \A entityID \in EntityIds, kind \in ValueKinds :
          \A value \in ValuesOfKind(kind) :
            ( /\ last'.tool = "update-entity-value"
              /\ UpdateEntityValueCall(entityID, IS_ACTIVE, kind, value) )
            => last'.message # INVALID_ARGUMENTS ]_vars

\* C35: an update-entity-position call that succeeds leaves positionX and
\* positionY of the named entity at the given x and y, and after a call
\* that returns isError = true every positionX and positionY is what it was
\* before the call.
C35_PositionBothOrNeither ==
    [][ /\ \A entityID \in EntityIds, position \in NewPositions,
              outcome \in ModifyOutcomes \cup UPDATE_THROWS :
             ( /\ last'.tool = "update-entity-position"
               /\ ~last'.isError
               /\ UpdateEntityPositionTool(entityID, position[1],
                                           position[2], outcome) )
             => /\ entities'[entityID].fields["positionX"] = position[1]
                /\ entities'[entityID].fields["positionY"] = position[2]
        /\ ( /\ last'.tool = "update-entity-position"
             /\ last'.isError )
           => \A e \in DOMAIN entities \cap DOMAIN entities' :
                 \A f \in POSITION_FIELDS \cap DOMAIN entities[e].fields :
                    entities'[e].fields[f] = entities[e].fields[f] ]_vars

MutationTools ==
    { "add-entity", "remove-entity", "update-entity-value",
      "update-entity-position" }

\* C37: no tool invocation submits more than one transaction, and an
\* add-entity call whose type resolves, a remove-entity, an
\* update-entity-value and an update-entity-position call made while the
\* held document is connected submit exactly one, whether the transaction
\* is applied or fails.
C37_OneTransaction ==
    [][ /\ last'.transactions <= 1
        /\ ( /\ ~NoConnectedDocument
             /\ last'.tool \in MutationTools
             /\ \/ /\ last'.tool = "add-entity"
                   /\ \E entityType \in AddEntityTypes,
                         properties \in AddEntityProperties,
                         x \in OptionalCoordinates,
                         y \in OptionalCoordinates,
                         outcome \in ModifyOutcomes :
                          /\ Resolved(entityType) # Null
                          /\ AddEntityTool(entityType, properties, x, y,
                                           outcome)
                \/ last'.tool = "remove-entity" /\ RemoveEntity
                \/ last'.tool = "update-entity-value" /\ UpdateEntityValue
                \/ /\ last'.tool = "update-entity-position"
                   /\ UpdateEntityPosition )
           => last'.transactions = 1 ]_vars

\* A transaction was rejected and the handler returned the error after
\* that one submission.
C37_Witness ==
    /\ last.tool \in MutationTools
    /\ last.isError
    /\ last.message = "modify rejected"
    /\ last.transactions = 1

\* A step in which recommend-entity-for-style returned: the latest result
\* is the tool's and the step wrote it or recorded the description.
RecommendReturned ==
    /\ last'.tool = RECOMMEND_TOOL
    /\ << last, description >>' # << last, description >>

\* C40: recommend-entity-for-style can be invoked in every reachable state,
\* also before a client or a document exists and while the document is
\* disconnected; it never returns isError and lets no exception escape, it
\* submits no transaction, it leaves the client, the document, the
\* credential and the auto-layout counter unchanged, and what it returns is
\* determined by the description alone.  Checked under SpecAdvice.
C40_RecommendAlwaysSucceeds ==
    [][ /\ \A text \in ToolDescriptions :
               ENABLED RecommendEntityForStyleTool(text)
        /\ RecommendReturned =>
              /\ ~last'.isError
              /\ ~last'.escaped
              /\ last'.transactions = 0
              /\ UNCHANGED << audiotoolClient, document, docs, entities,
                              autoLayoutOffset, autoPlaced, tokenManager,
                              tmVars >>
              /\ last'.content
                     = << Recommended(description').entityType,
                          Recommended(description').reason >>
              /\ (last.tool = RECOMMEND_TOOL /\ description' = description)
                     => last'.content = last.content ]_vars

\* The tool answered with the recommendation for "warm ambient pad" while
\* the document was disconnected and entities had been placed automatically.
C40_Witness ==
    /\ last.tool = RECOMMEND_TOOL
    /\ ~last.isError
    /\ description = WARM_AMBIENT_PAD
    /\ last.content[1] = VALID_ENTITY_TYPES[1]
    /\ document # 0
    /\ ~docs[document].connected
    /\ autoLayoutOffset > 0

(***************************************************************************)
(* Claims about initialize-session, checked under SpecSession and          *)
(* SpecSessionLive.                                                        *)
(***************************************************************************)
CONNECTION_TIMEOUT_ERROR == "Connection timeout after 10 seconds"

\* C12: an exception crosses the tool boundary only when the connectivity
\* wait of initialize-session timed out; every other failure of a tool is
\* returned as a ToolResult with isError = true.
C12_OnlyTimeoutEscapes ==
    /\ last.escaped =>
          /\ last.tool = "initialize-session"
          /\ last.message = CONNECTION_TIMEOUT_ERROR
    /\ (last.tool # "none" /\ ~last.escaped /\ last.message # "ok")
          => last.isError

\* C13: a wait that found the document not connected is pending only while
\* its timer is armed and is rejected only by its timer, 10,000 ms after it
\* began; the initialize-session invocation that waits eventually ends.
C13_WaitTimesOut ==
    /\ [](\A w \in DOMAIN waits :
            /\ waits[w].promise = "pending" => waits[w].timer = "armed"
            /\ waits[w].promise = "rejected" =>
                  waits[w].timer = "fired" /\ waits[w].remaining = 0)
    /\ (sessionPc = "waiting") ~> (sessionPc = "idle")

\* The invocation has ended with the timeout error of its wait.
C13_Witness ==
    /\ sessionPc = "idle"
    /\ last.tool = "initialize-session"
    /\ last.message = CONNECTION_TIMEOUT_ERROR
    /\ waits # << >>
    /\ waits[CurrentWait].promise = "rejected"
    /\ ~docs[waits[CurrentWait].doc].connected

\* C14: once a wait has settled, the subscription it created is terminated.
C14_SubscriptionReleased ==
    \A w \in DOMAIN waits :
        waits[w].promise # "pending" => waits[w].subscription # "active"

\* One wait was rejected by its timer, another was resolved by a
\* notification while its timer is still armed; both subscriptions are
\* terminated.
C14_Witness ==
    \E v, w \in DOMAIN waits :
        /\ waits[v].promise = "rejected"
        /\ waits[v].subscription = "terminated"
        /\ waits[w].promise = "resolved"
        /\ waits[w].subscription = "terminated"
        /\ waits[w].timer = "armed"

\* C23: a wait created while its document is connected is resolved at once
\* and has neither a subscription nor a timer; a wait created while it is
\* not connected is pending, and it becomes resolved in the very step in
\* which its document turns connected while it is still subscribed, and in
\* no other step.
C23_ResolvedByFirstTrue ==
    [][ \A w \in DOMAIN waits' :
          IF w \notin DOMAIN waits
          THEN IF docs[waits'[w].doc].connected
               THEN /\ waits'[w].promise = "resolved"
                    /\ waits'[w].subscription = "none"
                    /\ waits'[w].timer = "none"
               ELSE /\ waits'[w].promise = "pending"
                    /\ waits'[w].subscription = "active"
                    /\ waits'[w].timer = "armed"
          ELSE /\ ( /\ waits[w].promise = "pending"
                    /\ waits'[w].promise = "resolved" )
                  => /\ ~docs[waits[w].doc].connected
                     /\ docs'[waits[w].doc].connected
               /\ ( /\ waits[w].promise = "pending"
                    /\ waits[w].subscription = "active"
                    /\ ~docs[waits[w].doc].connected
                    /\ docs'[waits[w].doc].connected )
                  => waits'[w].promise = "resolved" ]_vars

\* One wait found its document connected, another was resolved by a
\* notification.
C23_Witness ==
    \E v, w \in DOMAIN waits :
        /\ waits[v].promise = "resolved"
        /\ waits[v].subscription = "none"
        /\ waits[v].timer = "none"
        /\ waits[w].promise = "resolved"
        /\ waits[w].subscription = "terminated"
        /\ waits[w].timer = "armed"

\* C24: a wait that has been resolved or rejected keeps that outcome in
\* every later step, whatever its timer and its document do afterwards.
C24_SettlesOnce ==
    [][ \A w \in DOMAIN waits :
          waits[w].promise # "pending"
          => waits'[w].promise = waits[w].promise ]_vars

\* The timer of a resolved wait has fired, and the document of a rejected
\* wait has become connected.
C24_Witness ==
    \E v, w \in DOMAIN waits :
        /\ waits[v].promise = "resolved"
        /\ waits[v].timer = "fired"
        /\ waits[w].promise = "rejected"
        /\ docs[waits[w].doc].connected

\* C25: a resolved wait has no armed timer, the timer callback of a resolved
\* wait never runs, and the callback, which calls terminate(), never runs
\* for a wait whose subscription was terminated already.
C25_TimerCancelled ==
    [][ \A w \in DOMAIN waits :
          /\ waits[w].promise = "resolved" => waits[w].timer # "armed"
          /\ ( \/ waits[w].promise = "resolved"
               \/ waits[w].subscription = "terminated" )
             => ~(waits[w].timer = "armed" /\ waits'[w].timer = "fired")
      ]_vars

\* C26: when the tool invocation that ended last is an initialize-session
\* that failed with the connectivity timeout, no document is held, and
\* getDocument(), which every mutation tool calls first, throws the
\* no-document-open error, whether or not the document of the timed-out
\* wait is connected by now.
C26_NoDocumentAfterTimeout ==
    ( /\ sessionPc = "idle"
      /\ last.tool = "initialize-session"
      /\ last.message = CONNECTION_TIMEOUT_ERROR )
    => /\ document = 0
       /\ GetDocument = "No document open"

\* C27: whenever no handler is running and a document is held, the held
\* document was created by the client that is held.
C27_DocumentOfHeldClient ==
    (sessionPc = "idle" /\ document # 0)
    => docs[document].client = audiotoolClient

\* The documents whose start() completed and whose stop() was not called.
Running == { d \in DOMAIN docs : docs[d].started /\ ~docs[d].stopped }

\* C28: a handler that replaces the held document leaves the replaced one
\* stopped, and at no time are two documents started and not stopped.
C28_PreviousDocumentStopped ==
    [][ /\ (document # 0 /\ document' # document)
           => docs'[document].stopped
        /\ Cardinality(Running') <= 1 ]_vars

\* C29: an open-document call that returns its success result has used a
\* client authorized by the login status, whatever client was held when it
\* was called, and returns while the connectivity of the new document has
\* not been waited for.
C29_OpenDocumentStaticClient ==
    [][ ( /\ SessionOpen
          /\ last'.tool = "open-document"
          /\ ~last'.isError )
        => /\ docs'[document'].client.authorization = "static"
           /\ audiotoolClient'.authorization = "static"
           /\ docs'[document'].started
           /\ waits' = waits ]_vars

\* C15: initialize-session returns its success result only after the
\* TokenManager was constructed, the client was created with the
\* TokenManager as its token source, the document was created, start()
\* completed and the connectivity observable was seen true, in this order.
C15_SuccessAfterHandshake ==
    [][ (SessionReturn /\ ~last'.escaped)
        => /\ last'.tool = "initialize-session"
           /\ ~last'.isError
           /\ trace = SESSION_STEPS
           /\ tokenManager = "constructed"
           /\ audiotoolClient.authorization = "tokenManager"
           /\ document = waits[CurrentWait].doc
           /\ docs[document].started
           /\ waits[CurrentWait].promise = "resolved" ]_vars

\* A second invocation has succeeded through a notification.
C15_Witness ==
    /\ sessionPc = "idle"
    /\ sessions = 2
    /\ last.tool = "initialize-session"
    /\ ~last.escaped
    /\ ~last.isError
    /\ trace = SESSION_STEPS
    /\ waits[CurrentWait].subscription = "terminated"

(***************************************************************************)
(* Claims about recommendEntityForStyle, checked under SpecAdvisor.        *)
(***************************************************************************)
MatchingKeywords(text) ==
    { k \in 1..Len(STYLE_MAP) : StringIncludes(ToLowerCase(text), STYLE_MAP[k][1]) }

FirstKeyword(text) ==
    CHOOSE k \in MatchingKeywords(text) : \A h \in MatchingKeywords(text) : k <= h

\* C10: recommendEntityForStyle returns the entry of the first keyword, in
\* table order, contained in the lower-cased description, and the heisenberg
\* default when none is; "warm ambient pad" yields heisenberg and
\* "acid bassline" yields bassline.
C10_FirstKeywordWins ==
    stylePc = "done" =>
        /\ MatchingKeywords(description) = {}
              => recommendation = DEFAULT_RECOMMENDATION
        /\ MatchingKeywords(description) # {}
              => /\ recommendation.entityType =
                        STYLE_MAP[FirstKeyword(description)][2]
                 /\ recommendation.reason =
                        STYLE_MAP[FirstKeyword(description)][3]
        /\ DEFAULT_RECOMMENDATION.entityType = VALID_ENTITY_TYPES[1]
        /\ description = WARM_AMBIENT_PAD
              => recommendation.entityType = VALID_ENTITY_TYPES[1]
        /\ description = ACID_BASSLINE
              => recommendation.entityType = VALID_ENTITY_TYPES[2]

\* An upper-case description with two keywords of different entries.
C10_Witness ==
    /\ stylePc = "done"
    /\ Cardinality(MatchingKeywords(description)) >= 2
    /\ description # ToLowerCase(description)
    /\ \E k \in MatchingKeywords(description) :
          STYLE_MAP[k][2] # recommendation.entityType

====
